---- MODULE Spec2Model ----
(***************************************************************************)
(* A model of the mathematical objects of the repository: the fusion ring  *)
(* of the Drinfeld double of a finite group (fusion_double.py), the        *)
(* generating functions of polyhedra (generating_function.py), finite      *)
(* Drinfeld modules (finite_drinfeld_module.py) and rings of Drinfeld      *)
(* modular forms (drinfeld_modform/ring.py).                               *)
(*                                                                         *)
(* Every method is a pure function of the object it is called on and of    *)
(* its arguments.  Each part of the model has a specification whose Init   *)
(* draws the object from a bounded family and whose actions are the method *)
(* calls; the call made last is kept, with its arguments and its outcome.  *)
(***************************************************************************)
EXTENDS Integers, Sequences, FiniteSets, TLC

\* ---------------------------------------------------------------- bounds
\* the rationals r = p/q handed to root_of_unity: |p| <= MaxNum, q <= MaxDen
MaxNum == 4
MaxDen == 7
\* compositions_mod: at most MaxLen coefficients (columns) in u
MaxLen == 2
\* polyhedra: at most MaxIeqs inequalities handed to the constructor
MaxIeqs == 2
\* integer points looked at: every coordinate within -MaxCoord..MaxCoord
MaxCoord == 2
\* Drinfeld modules and rings of Drinfeld modular forms: rank at most MaxRank
MaxRank == 3
\* coefficient forms: the argument a has degree at most MaxDegree
MaxDegree == 2

VARIABLES
    fd_G,       \* FusionDouble: the name of the group G the ring was built from
    fd_in,      \* FusionDouble: the method called on the ring and its arguments
    fd_out,     \* FusionDouble: the outcome of that call, once it has returned
    cm_in,      \* compositions_mod: the arguments of the call
    cm_out,     \* compositions_mod: the outcome of the call
    gf_in,      \* generating_function_of_polyhedron: the arguments of the call
    gf_out,     \* generating_function_of_polyhedron: the outcome of the call
    dm_phi,     \* FiniteDrinfeldModule: the module, with its cached attributes
    dm_in,      \* FiniteDrinfeldModule: the method called on the module
    dm_out,     \* FiniteDrinfeldModule: the outcome of the call
    mf_in,      \* DrinfeldModularForms: the ring and the method called on it
    mf_out,     \* DrinfeldModularForms: the outcome of the call
    sc_in,      \* Subcrystal: the subcrystal and the method called
    sc_out,     \* Subcrystal: the outcome of the call
    eg_in,      \* EuclideanGroup: the group and the method called on it
    eg_out,     \* EuclideanGroup: the outcome of the call
    pp_in,      \* prepare_inequalities, prepare_mod: the arguments of the call
    pp_out,     \* prepare_inequalities, prepare_mod: the outcome of the call
    fc_H,       \* FusionDouble with s_ij called repeatedly: the ring
    fc_s_ij,    \* ... the cache of its cached method s_ij
    fc_in,      \* ... the arguments of the s_ij call
    fc_out      \* ... the outcome of the call

fd_vars == <<fd_G, fd_in, fd_out>>
cm_vars == <<cm_in, cm_out>>
gf_vars == <<gf_in, gf_out>>
dm_vars == <<dm_phi, dm_in, dm_out>>
mf_vars == <<mf_in, mf_out>>
sc_vars == <<sc_in, sc_out>>
eg_vars == <<eg_in, eg_out>>
pp_vars == <<pp_in, pp_out>>
fc_vars == <<fc_H, fc_s_ij, fc_in, fc_out>>

vars == <<fd_vars, cm_vars, gf_vars, dm_vars, mf_vars, sc_vars, eg_vars, pp_vars, fc_vars>>

\* a call that was not made, an outcome that is not there yet, an outcome
Idle == [op |-> "idle"]

\* Python's None
None == [kind |-> "None"]

Pending == [done |-> FALSE]

Returned(ret) == [done |-> TRUE, ret |-> ret]

\* the parts of the program a behaviour does not exercise stay untouched
FdIdle == fd_G = <<"C", 1>> /\ fd_in = Idle /\ fd_out = Pending

CmIdle == cm_in = Idle /\ cm_out = Pending

GfIdle == gf_in = Idle /\ gf_out = Pending

DmIdle == dm_phi = Idle /\ dm_in = Idle /\ dm_out = Pending

MfIdle == mf_in = Idle /\ mf_out = Pending

ScIdle == sc_in = Idle /\ sc_out = Pending

EgIdle == eg_in = Idle /\ eg_out = Pending

PpIdle == pp_in = Idle /\ pp_out = Pending

FcIdle == fc_H = Idle /\ fc_s_ij = <<>> /\ fc_in = Idle /\ fc_out = Pending

\* ------------------------------------------------------ integer helpers
RECURSIVE SumSeq(_)
SumSeq(s) == IF s = <<>> THEN 0 ELSE Head(s) + SumSeq(Tail(s))

Abs(x) == IF x < 0 THEN -x ELSE x

RECURSIVE GcdNat(_, _)
GcdNat(a, b) == IF b = 0 THEN a ELSE GcdNat(b, a % b)

Gcd(a, b) == GcdNat(Abs(a), Abs(b))

Lcm(a, b) == IF a = 0 \/ b = 0 THEN 0 ELSE (Abs(a) * Abs(b)) \div Gcd(a, b)

\* ----------------------------------------------------------------------
\* Character values.  Every group of the family below has exponent
\* dividing 12, so every character value lies in Q(zeta), zeta a primitive
\* 12th root of unity.  A number is [c |-> <<c0,c1,c2,c3>>, d |-> d], the
\* value (c0 + c1 zeta + c2 zeta^2 + c3 zeta^3) / d in lowest terms with
\* d > 0; the representation is unique, zeta^4 = zeta^2 - 1.
\* ----------------------------------------------------------------------
ZetaLow(k) ==
    CASE k = 0 -> <<1, 0, 0, 0>>
      [] k = 1 -> <<0, 1, 0, 0>>
      [] k = 2 -> <<0, 0, 1, 0>>
      [] k = 3 -> <<0, 0, 0, 1>>
      [] k = 4 -> <<-1, 0, 1, 0>>
      [] k = 5 -> <<0, -1, 0, 1>>

ZetaPow(n) ==
    LET k == n % 12
    IN  IF k < 6 THEN ZetaLow(k) ELSE [i \in 1..4 |-> -ZetaLow(k - 6)[i]]

ZAdd(a, b) == [i \in 1..4 |-> a[i] + b[i]]

ZScale(n, a) == [i \in 1..4 |-> n * a[i]]

ZMul(a, b) ==
    LET p(k) == IF k = 0 THEN a[1]*b[1]
                ELSE IF k = 1 THEN a[1]*b[2] + a[2]*b[1]
                ELSE IF k = 2 THEN a[1]*b[3] + a[2]*b[2] + a[3]*b[1]
                ELSE IF k = 3 THEN a[1]*b[4] + a[2]*b[3] + a[3]*b[2] + a[4]*b[1]
                ELSE IF k = 4 THEN a[2]*b[4] + a[3]*b[3] + a[4]*b[2]
                ELSE IF k = 5 THEN a[3]*b[4] + a[4]*b[3]
                ELSE a[4]*b[4]
    IN  <<p(0) - p(4) - p(6), p(1) - p(5), p(2) + p(4), p(3) + p(5)>>

\* the Galois automorphism zeta |-> zeta^k, k prime to 12
Sigma(k, a) ==
    ZAdd(ZAdd(ZScale(a[1], ZetaPow(0)), ZScale(a[2], ZetaPow(k))),
         ZAdd(ZScale(a[3], ZetaPow(2 * k)), ZScale(a[4], ZetaPow(3 * k))))

CNorm(c, d) ==
    LET g == Gcd(Gcd(Gcd(c[1], c[2]), Gcd(c[3], c[4])), d)
        s == IF d < 0 THEN -1 ELSE 1
    IN  [c |-> [i \in 1..4 |-> (s * c[i]) \div g], d |-> (s * d) \div g]

CInt(n) == [c |-> <<n, 0, 0, 0>>, d |-> 1]

CRat(n, d) == CNorm(<<n, 0, 0, 0>>, d)

CZeta(n) == [c |-> ZetaPow(n), d |-> 1]

CAdd(x, y) == CNorm(ZAdd(ZScale(y.d, x.c), ZScale(x.d, y.c)), x.d * y.d)

CMul(x, y) == CNorm(ZMul(x.c, y.c), x.d * y.d)

CConj(x) == [c |-> Sigma(11, x.c), d |-> x.d]

\* 1/x: for a rational x directly, else the product of the other three
\* Galois conjugates over the norm
CInv(x) ==
    IF x.c[2] = 0 /\ x.c[3] = 0 /\ x.c[4] = 0
    THEN CNorm(<<x.d, 0, 0, 0>>, x.c[1])
    ELSE LET others == ZMul(ZMul(Sigma(5, x.c), Sigma(7, x.c)), Sigma(11, x.c))
             norm   == ZMul(x.c, others)
         IN  CNorm(ZScale(x.d, others), norm[1])

CDiv(x, y) == CMul(x, CInv(y))

CIsInt(x) == x.d = 1 /\ x.c[2] = 0 /\ x.c[3] = 0 /\ x.c[4] = 0

RECURSIVE CSum(_)
CSum(terms) ==
    IF terms = <<>> THEN CInt(0) ELSE CAdd(Head(terms), CSum(Tail(terms)))

\* ----------------------------------------------------------------------
\* The finite groups G.  A group is a record: elts (the order in which
\* "for g in G" runs), mul, one, reps (conjugacy_classes_representatives),
\* irr (rep |-> the irreducible characters of the centralizer of rep, each
\* a function on that centralizer) and exponent.  The identity class and
\* the trivial character come first, as in the ribbon doctest of
\* CyclicPermutationGroup(3).
\* ----------------------------------------------------------------------
CyclicPermutationGroup(n) ==
    [ name     |-> <<"C", n>>,
      elts     |-> [k \in 1..n |-> k - 1],
      mul      |-> [a \in 0..(n-1), b \in 0..(n-1) |-> (a + b) % n],
      one      |-> 0,
      reps     |-> [k \in 1..n |-> k - 1],
      irr      |-> [g \in 0..(n-1) |->
                      [k \in 1..n |->
                          [x \in 0..(n-1) |-> CZeta((12 \div n) * (k - 1) * x)]]],
      exponent |-> n ]

Perm3 == {p \in [1..3 -> 1..3] : {p[1], p[2], p[3]} = 1..3}

PermId == <<1, 2, 3>>
PermT  == <<2, 1, 3>>
PermC  == <<2, 3, 1>>
PermCC == <<3, 1, 2>>

Fix(p) == Cardinality({x \in 1..3 : p[x] = x})

SymmetricGroup3 ==
    [ name     |-> <<"S", 3>>,
      elts     |-> <<PermId, PermT, <<1, 3, 2>>, <<3, 2, 1>>, PermC, PermCC>>,
      mul      |-> [a \in Perm3, b \in Perm3 |-> [x \in 1..3 |-> b[a[x]]]],
      one      |-> PermId,
      reps     |-> <<PermId, PermT, PermC>>,
      irr      |-> [g \in {PermId, PermT, PermC} |->
                      IF g = PermId
                      THEN << [x \in Perm3 |-> CInt(1)],
                              [x \in Perm3 |-> CInt(IF Fix(x) = 1 THEN -1 ELSE 1)],
                              [x \in Perm3 |-> CInt(Fix(x) - 1)] >>
                      ELSE IF g = PermT
                      THEN << [x \in {PermId, PermT} |-> CInt(1)],
                              [x \in {PermId, PermT} |->
                                  CInt(IF x = PermT THEN -1 ELSE 1)] >>
                      ELSE [k \in 1..3 |->
                              [x \in {PermId, PermC, PermCC} |->
                                  CZeta(4 * (k - 1) *
                                        (IF x = PermId THEN 0
                                         ELSE IF x = PermC THEN 1 ELSE 2))]]],
      exponent |-> 6 ]

GroupNames == {<<"C", 1>>, <<"C", 2>>, <<"C", 3>>, <<"S", 3>>}

Group ==
    [n \in GroupNames |->
        IF n[1] = "C" THEN CyclicPermutationGroup(n[2]) ELSE SymmetricGroup3]

Elements(G) == {G.elts[k] : k \in 1..Len(G.elts)}

order(G) == Len(G.elts)

inverse(G, g) == CHOOSE h \in Elements(G) : G.mul[g, h] = G.one

centralizer(G, a) == {g \in Elements(G) : G.mul[a, g] = G.mul[g, a]}

conjugacy_class(G, x) ==
    {G.mul[G.mul[inverse(G, g), x], g] : g \in Elements(G)}

\* ----------------------------------------------------------------------
\* FusionDouble (fusion_double.py)
\* ----------------------------------------------------------------------
RECURSIVE init_loop(_, _)
init_loop(G, a) ==
    IF a > Len(G.reps) THEN <<>>
    ELSE [c \in 1..Len(G.irr[G.reps[a]]) |-> <<G.reps[a], G.irr[G.reps[a]][c]>>]
         \o init_loop(G, a + 1)

\* __init__: the simple objects are numbered 0, 1, ... in the order
\* (class representative, character of its centralizer)
FusionDouble(G) ==
    LET pairs == init_loop(G, 1)
        count == Len(pairs)
    IN  [ _G                |-> G,
          _elt              |-> [k \in 0..(count - 1) |-> pairs[k + 1][1]],
          _chi              |-> [k \in 0..(count - 1) |-> pairs[k + 1][2]],
          _rank             |-> count,
          _cyclotomic_order |-> G.exponent,
          _basecoer         |-> "None" ]

Doubles == [n \in GroupNames |-> FusionDouble(Group[n])]

\* the keys of basis(), in the order get_order() and "for x in basis()" use
basis(H) == [k \in 1..H._rank |-> k - 1]

BasisKeys(H) == 0..(H._rank - 1)

one(H) == basis(H)[1]

basecoer(H, ret) == [coerced_by |-> H._basecoer, value |-> ret]

\* s_ij with the two normalisations exchanged
s_ij_flag_inverted(H, i, j, unitary, base_coercion) ==
    LET G     == H._G
        a     == H._elt[i]
        chi_1 == H._chi[i]
        b     == H._elt[j]
        chi_2 == H._chi[j]
        term(g) ==
            LET gi  == inverse(G, g)
                gbg == G.mul[G.mul[g, b], gi]
            IN  IF G.mul[a, gbg] = G.mul[gbg, a]
                THEN CMul(chi_1[gbg], chi_2[G.mul[G.mul[gi, a], g]])
                ELSE CInt(0)
        sum   == CSum([k \in 1..Len(G.elts) |-> term(G.elts[k])])
        coef  == IF ~unitary
                 THEN CRat(1, Cardinality(centralizer(G, a))
                              * Cardinality(centralizer(G, b)))
                 ELSE CRat(order(G), Cardinality(centralizer(G, a))
                                     * Cardinality(centralizer(G, b)))
        ret   == CMul(coef, sum)
    IN  IF (~base_coercion) \/ H._basecoer = "None" THEN ret
        ELSE basecoer(H, ret)

s_ij(H, i, j, unitary, base_coercion) ==
    LET G     == H._G
        a     == H._elt[i]
        chi_1 == H._chi[i]
        b     == H._elt[j]
        chi_2 == H._chi[j]
        term(g) ==
            LET gi  == inverse(G, g)
                gbg == G.mul[G.mul[g, b], gi]
            IN  IF G.mul[a, gbg] = G.mul[gbg, a]
                THEN CMul(chi_1[gbg], chi_2[G.mul[G.mul[gi, a], g]])
                ELSE CInt(0)
        sum   == CSum([k \in 1..Len(G.elts) |-> term(G.elts[k])])
        coef  == IF unitary
                 THEN CRat(1, Cardinality(centralizer(G, a))
                              * Cardinality(centralizer(G, b)))
                 ELSE CRat(order(G), Cardinality(centralizer(G, a))
                                     * Cardinality(centralizer(G, b)))
        ret   == CMul(coef, sum)
    IN  IF (~base_coercion) \/ H._basecoer = "None" THEN ret
        ELSE basecoer(H, ret)

\* @cached_method s_ij, as the other methods call it (base_coercion=True)
s_ij_cache ==
    [n \in GroupNames |->
        [i \in BasisKeys(Doubles[n]), j \in BasisKeys(Doubles[n]), unitary \in BOOLEAN |->
            s_ij(Doubles[n], i, j, unitary, TRUE)]]

cached_s_ij(H, i, j, unitary) == s_ij_cache[H._G.name][i, j, unitary]

total_q_order(H, base_coercion) ==
    LET ret == CInt(order(H._G))
    IN  IF (~base_coercion) \/ H._basecoer = "None" THEN ret
        ELSE basecoer(H, ret)

s_matrix(H, unitary, base_coercion) ==
    LET S == [y \in BasisKeys(H), x \in BasisKeys(H) |->
                 IF base_coercion THEN cached_s_ij(H, x, y, unitary)
                 ELSE s_ij(H, x, y, unitary, base_coercion)]
    IN  IF unitary
        THEN [y \in BasisKeys(H), x \in BasisKeys(H) |->
                 CDiv(S[y, x], total_q_order(H, TRUE))]
        ELSE S

\* ZZ(x): the integer x is, a TypeError when it is none
ZZ(x) == IF CIsInt(x) THEN x.c[1] ELSE "TypeError"

N_ijk(H, i, j, k) ==
    LET sz == one(H)
    IN  ZZ(CSum([n \in 1..H._rank |->
                   LET r == basis(H)[n]
                   IN  CDiv(CMul(CMul(cached_s_ij(H, i, r, TRUE),
                                      cached_s_ij(H, j, r, TRUE)),
                                 cached_s_ij(H, k, r, TRUE)),
                            cached_s_ij(H, sz, r, TRUE))]))

N_ijk_cache ==
    [n \in GroupNames |->
        [i \in BasisKeys(Doubles[n]), j \in BasisKeys(Doubles[n]), k \in BasisKeys(Doubles[n]) |->
            N_ijk(Doubles[n], i, j, k)]]

cached_N_ijk(H, i, j, k) == N_ijk_cache[H._G.name][i, j, k]

\* the first j of the basis with N_ijk(i, j, one) > 0; None when there is none
dual(H, i) ==
    LET sz == one(H)
        js == {n \in 1..H._rank : cached_N_ijk(H, i, basis(H)[n], sz) > 0}
    IN  IF js = {} THEN "None"
        ELSE basis(H)[CHOOSE n \in js : \A m \in js : n <= m]

dual_cache == [n \in GroupNames |-> [i \in BasisKeys(Doubles[n]) |-> dual(Doubles[n], i)]]

cached_dual(H, i) == dual_cache[H._G.name][i]

Nk_ij(H, i, j, k) == cached_N_ijk(H, i, j, cached_dual(H, k))

RECURSIVE CSumOver(_)
CSumOver(f) ==
    IF DOMAIN f = {} THEN CInt(0)
    ELSE LET x == CHOOSE y \in DOMAIN f : TRUE
         IN  CAdd(f[x], CSumOver([y \in DOMAIN f \ {x} |-> f[y]]))

\* the g that "for g in G: if g.inverse() * base * g == x: twist = g" leaves
twist_of(G, base, x) ==
    LET hits == {n \in 1..Len(G.elts) :
                    G.mul[G.mul[inverse(G, G.elts[n]), base], G.elts[n]] = x}
    IN  G.elts[CHOOSE n \in hits : \A m \in hits : m <= n]

\* char_Nk_ij with the size of the class of i, not of k, in the coefficient
char_Nk_ij_class_of_i(H, i, j, k) ==
    LET G  == H._G
        ig == H._elt[i]
        jg == H._elt[j]
        kg == H._elt[k]
        I  == conjugacy_class(G, ig)
        J  == conjugacy_class(G, jg)
        IJ == {G.mul[I_elem, J_elem] : I_elem \in I, J_elem \in J}
    IN  IF kg \notin IJ THEN CInt(0)
        ELSE
        LET CI == centralizer(G, ig)
            CJ == centralizer(G, jg)
            CK == centralizer(G, kg)
            c  == CRat(Cardinality(I), order(G))
            summands == {p \in I \X J : G.mul[p[1], p[2]] = kg}
            inner(p) ==
                LET i_twist == twist_of(G, ig, p[1])
                    j_twist == twist_of(G, jg, p[2])
                    A == {G.mul[G.mul[inverse(G, i_twist), zi], i_twist] : zi \in CI}
                    B == {G.mul[G.mul[inverse(G, j_twist), zj], j_twist] : zj \in CJ}
                    inner_summands == (A \cap B) \cap CK
                IN  CSumOver([x \in inner_summands |->
                        CMul(CMul(H._chi[i][G.mul[G.mul[i_twist, x], inverse(G, i_twist)]],
                                  H._chi[j][G.mul[G.mul[j_twist, x], inverse(G, j_twist)]]),
                             CConj(H._chi[k][x]))])
            res == CSumOver([p \in summands |-> inner(p)])
        IN  CMul(c, res)

char_Nk_ij(H, i, j, k) ==
    LET G  == H._G
        ig == H._elt[i]
        jg == H._elt[j]
        kg == H._elt[k]
        I  == conjugacy_class(G, ig)
        J  == conjugacy_class(G, jg)
        IJ == {G.mul[I_elem, J_elem] : I_elem \in I, J_elem \in J}
    IN  IF kg \notin IJ THEN CInt(0)
        ELSE
        LET K  == conjugacy_class(G, kg)
            CI == centralizer(G, ig)
            CJ == centralizer(G, jg)
            CK == centralizer(G, kg)
            c  == CRat(Cardinality(K), order(G))
            summands == {p \in I \X J : G.mul[p[1], p[2]] = kg}
            inner(p) ==
                LET i_twist == twist_of(G, ig, p[1])
                    j_twist == twist_of(G, jg, p[2])
                    A == {G.mul[G.mul[inverse(G, i_twist), zi], i_twist] : zi \in CI}
                    B == {G.mul[G.mul[inverse(G, j_twist), zj], j_twist] : zj \in CJ}
                    inner_summands == (A \cap B) \cap CK
                IN  CSumOver([x \in inner_summands |->
                        CMul(CMul(H._chi[i][G.mul[G.mul[i_twist, x], inverse(G, i_twist)]],
                                  H._chi[j][G.mul[G.mul[j_twist, x], inverse(G, j_twist)]]),
                             CConj(H._chi[k][x]))])
            res == CSumOver([p \in summands |-> inner(p)])
        IN  CMul(c, res)

\* CyclotomicField(4 * _cyclotomic_order): a power gen()^n of the generator
field(H) == 4 * H._cyclotomic_order

\* root_of_unity with n = r * _cyclotomic_order
root_of_unity_half(H, r, base_coercion) ==
    LET g   == Gcd(r.p * H._cyclotomic_order, r.q)
        n   == [p |-> (r.p * H._cyclotomic_order) \div g, q |-> r.q \div g]
    IN  IF n.q # 1
        THEN [raised |-> "ValueError", msg |-> "not a root of unity in the field"]
        ELSE LET ret == [field |-> field(H), gen_pow |-> n.p % field(H)]
             IN  [raised |-> "None",
                  value  |-> IF (~base_coercion) \/ H._basecoer = "None" THEN ret
                             ELSE basecoer(H, ret)]

\* root_of_unity(r), r the rational r.p / r.q in lowest terms
root_of_unity(H, r, base_coercion) ==
    LET g   == Gcd(2 * r.p * H._cyclotomic_order, r.q)
        n   == [p |-> (2 * r.p * H._cyclotomic_order) \div g, q |-> r.q \div g]
    IN  IF n.q # 1
        THEN [raised |-> "ValueError", msg |-> "not a root of unity in the field"]
        ELSE LET ret == [field |-> field(H), gen_pow |-> n.p % field(H)]
             IN  [raised |-> "None",
                  value  |-> IF (~base_coercion) \/ H._basecoer = "None" THEN ret
                             ELSE basecoer(H, ret)]

global_q_dimension(H, base_coercion) ==
    LET ret == CInt(order(H._G) * order(H._G))
    IN  IF (~base_coercion) \/ H._basecoer = "None" THEN ret
        ELSE basecoer(H, ret)

\* Element.q_dimension of the simple object x
q_dimension(H, x) == cached_s_ij(H, x, one(H), FALSE)

\* ------------------------------------------------- FusionDouble: calls
\* fd_in is the method call made on the ring, drawn at the start; the
\* action of that method computes its outcome into fd_out.
H == Doubles[fd_G]

Rationals == {r \in [p : (-MaxNum)..MaxNum, q : 1..MaxDen] : Gcd(r.p, r.q) = 1}

FdCalls(n) ==
    LET B == BasisKeys(Doubles[n])
    IN  [op : {"s_matrix"}, unitary : BOOLEAN]
        \cup [op : {"global_q_dimension"}]
        \cup [op : {"q_dimension"}, x : B]
        \cup [op : {"Nk_ij", "char_Nk_ij"}, i : B, j : B, k : B]
        \cup [op : {"root_of_unity"}, r : Rationals]

FdInit ==
    /\ fd_G \in GroupNames
    /\ fd_in \in FdCalls(fd_G)
    /\ fd_out = Pending
    /\ CmIdle /\ GfIdle /\ DmIdle /\ MfIdle /\ ScIdle /\ EgIdle /\ PpIdle /\ FcIdle

Call_s_matrix ==
    /\ fd_out = Pending
    /\ fd_in.op = "s_matrix"
    /\ fd_out' = Returned(s_matrix(H, fd_in.unitary, TRUE))
    /\ UNCHANGED <<fd_G, fd_in, cm_vars, gf_vars, dm_vars, mf_vars,
                   sc_vars, eg_vars, pp_vars,
                   fc_vars>>

Call_global_q_dimension ==
    /\ fd_out = Pending
    /\ fd_in.op = "global_q_dimension"
    /\ fd_out' = Returned(global_q_dimension(H, TRUE))
    /\ UNCHANGED <<fd_G, fd_in, cm_vars, gf_vars, dm_vars, mf_vars,
                   sc_vars, eg_vars, pp_vars,
                   fc_vars>>

Call_q_dimension ==
    /\ fd_out = Pending
    /\ fd_in.op = "q_dimension"
    /\ fd_out' = Returned(q_dimension(H, fd_in.x))
    /\ UNCHANGED <<fd_G, fd_in, cm_vars, gf_vars, dm_vars, mf_vars,
                   sc_vars, eg_vars, pp_vars,
                   fc_vars>>

Call_Nk_ij ==
    /\ fd_out = Pending
    /\ fd_in.op = "Nk_ij"
    /\ fd_out' = Returned(Nk_ij(H, fd_in.i, fd_in.j, fd_in.k))
    /\ UNCHANGED <<fd_G, fd_in, cm_vars, gf_vars, dm_vars, mf_vars,
                   sc_vars, eg_vars, pp_vars,
                   fc_vars>>

Call_char_Nk_ij ==
    /\ fd_out = Pending
    /\ fd_in.op = "char_Nk_ij"
    /\ fd_out' = Returned(char_Nk_ij(H, fd_in.i, fd_in.j, fd_in.k))
    /\ UNCHANGED <<fd_G, fd_in, cm_vars, gf_vars, dm_vars, mf_vars,
                   sc_vars, eg_vars, pp_vars,
                   fc_vars>>

Call_root_of_unity ==
    /\ fd_out = Pending
    /\ fd_in.op = "root_of_unity"
    /\ fd_out' = Returned(root_of_unity(H, fd_in.r, TRUE))
    /\ UNCHANGED <<fd_G, fd_in, cm_vars, gf_vars, dm_vars, mf_vars,
                   sc_vars, eg_vars, pp_vars,
                   fc_vars>>

FdNext ==
    \/ Call_s_matrix
    \/ Call_global_q_dimension
    \/ Call_q_dimension
    \/ Call_Nk_ij
    \/ Call_char_Nk_ij
    \/ Call_root_of_unity

SpecFusion == FdInit /\ [][FdNext]_vars

\* ======================================================================
\* The claims
\* ======================================================================
IdentityMatrix(K) == [y \in K, x \in K |-> IF x = y THEN CInt(1) ELSE CInt(0)]

TimesConjugate(S, K) ==
    [y \in K, x \in K |-> CSumOver([k \in K |-> CMul(S[y, k], CConj(S[k, x]))])]

\* C1: for every group G, S = s_matrix(unitary=True) is unitary: S times its
\* complex conjugate is the identity matrix of size rank(H).
C1_SMatrixUnitary ==
    (fd_out.done /\ fd_in.op = "s_matrix" /\ fd_in.unitary)
        => TimesConjugate(fd_out.ret, BasisKeys(H)) = IdentityMatrix(BasisKeys(H))

\* C2: global_q_dimension() is |G|^2 and is the sum over the basis of
\* q_dimension()^2, q_dimension() being s_ij(x, one()).
C2_GlobalQDimension ==
    (fd_out.done /\ fd_in.op = "global_q_dimension")
        => /\ fd_out.ret = CInt(order(H._G) * order(H._G))
           /\ fd_out.ret = CSumOver([x \in BasisKeys(H) |->
                               CMul(q_dimension(H, x), q_dimension(H, x))])
           /\ \A x \in BasisKeys(H) : q_dimension(H, x) = s_ij(H, x, one(H), FALSE, TRUE)

C2_Witness ==
    /\ fd_out.done
    /\ fd_in.op = "global_q_dimension"
    /\ fd_G = <<"S", 3>>
    /\ fd_out.ret = CInt(36)

\* C3: the fusion coefficient of the Verlinde formula, Nk_ij(i, j, k) =
\* N_ijk(i, j, dual(k)), equals the one of the character formula,
\* char_Nk_ij(i, j, k), for all simple objects i, j, k.
C3_VerlindeIsCharacterFormula ==
    /\ (fd_out.done /\ fd_in.op = "Nk_ij")
          => /\ fd_out.ret = N_ijk(H, fd_in.i, fd_in.j, dual(H, fd_in.k))
             /\ CInt(fd_out.ret) = char_Nk_ij(H, fd_in.i, fd_in.j, fd_in.k)
    /\ (fd_out.done /\ fd_in.op = "char_Nk_ij")
          => fd_out.ret = CInt(Nk_ij(H, fd_in.i, fd_in.j, fd_in.k))

\* a coefficient 2 in the double of S3, between objects of a class that is
\* not central
C3_Witness ==
    /\ fd_out.done
    /\ fd_in.op = "Nk_ij"
    /\ fd_G = <<"S", 3>>
    /\ H._elt[fd_in.i] # H._G.one
    /\ H._elt[fd_in.k] # H._G.one
    /\ fd_out.ret >= 1

\* C7: root_of_unity(r) raises ValueError exactly when 2*r*e is no integer, e
\* the exponent of G; otherwise it returns zeta^(2*r*e), zeta the generator
\* of CyclotomicField(4*e), which is e^(i*pi*r).
C7_RootOfUnity ==
    (fd_out.done /\ fd_in.op = "root_of_unity")
        => LET r == fd_in.r
               e == H._G.exponent
           IN  /\ (fd_out.ret.raised = "ValueError") <=> ((2 * r.p * e) % r.q # 0)
               /\ (fd_out.ret.raised # "ValueError") =>
                    /\ fd_out.ret.raised = "None"
                    /\ fd_out.ret.value.field = 4 * e
                    /\ fd_out.ret.value.gen_pow = ((2 * r.p * e) \div r.q) % (4 * e)
                    \* the angle gen_pow / (4e) of a turn is the angle r / 2
                    /\ (fd_out.ret.value.gen_pow * r.q - 2 * e * r.p) % (4 * e * r.q) = 0

\* the doctest: root_of_unity(2/3) in the double of a group of exponent 6
C7_Witness ==
    /\ fd_out.done
    /\ fd_in.op = "root_of_unity"
    /\ fd_G = <<"S", 3>>
    /\ fd_in.r = [p |-> 2, q |-> 3]
    /\ fd_out.ret.raised = "None"
    /\ fd_out.ret.value.gen_pow = 8

\* ===================================================== compositions_mod
\* A residue of Zmod(modulus) is the record [value, modulus]; the vectors
\* over Zmod(m) the function works on are tuples of values in 0..m-1.

\* IntegerMod.order(): the additive order of x in Z/mZ
additive_order(x, m) == m \div Gcd(x % m, m)

MaxOf(S) == CHOOSE x \in S : \A y \in S : y <= x

RECURSIVE _compositions_mod_(_, _, _)
RECURSIVE _compositions_mod_srange(_, _, _, _, _)

\* the generator, as the tuple of what it yields, in the order of yielding;
\* u and r are over Zmod(modulus)
_compositions_mod_(u, r, modulus) ==
    IF u = <<>>
    THEN IF \A t \in DOMAIN r : r[t] = 0 THEN << <<>> >> ELSE <<>>
    ELSE LET v == u[1]
             m == MaxOf({additive_order(v[t], modulus) : t \in DOMAIN v})
         IN  _compositions_mod_srange(u, r, modulus, m, 0)

\* "for j in srange(m): for a in _compositions_mod_(u[1:], r - j*v)", from j on
_compositions_mod_srange(u, r, modulus, m, j) ==
    IF j >= m THEN <<>>
    ELSE LET v    == u[1]
             rest == _compositions_mod_(Tail(u),
                         [t \in DOMAIN r |-> (r[t] - j * v[t]) % modulus], modulus)
         IN  [k \in 1..Len(rest) |-> <<[value |-> j, modulus |-> m]>> \o rest[k]]
             \o _compositions_mod_srange(u, r, modulus, m, j + 1)

\* the remainder argument: left at its default 0, or given
DefaultRemainder == [given |-> FALSE]

Remainder(r) == [given |-> TRUE, value |-> r]

\* mutant of compositions_mod: the remainder is not looked at
compositions_mod_ignoring_r(u, m, r, multidimensional) ==
    IF ~multidimensional
    THEN [raised |-> "None",
          value  |-> _compositions_mod_([k \in DOMAIN u |-> <<u[k] % m>>], <<0>>, m)]
    ELSE IF u = <<>> THEN [raised |-> "IndexError"]
    ELSE [raised |-> "None",
          value  |-> _compositions_mod_(
                         [k \in DOMAIN u |-> [t \in DOMAIN u[k] |-> u[k][t] % m]],
                         [t \in DOMAIN u[1] |-> 0], m)]

compositions_mod(u, m, r, multidimensional) ==
    IF ~multidimensional
    THEN [raised |-> "None",
          value  |-> _compositions_mod_(
                         [k \in DOMAIN u |-> <<u[k] % m>>],
                         <<(IF r.given THEN r.value ELSE 0) % m>>, m)]
    ELSE LET uu == [k \in DOMAIN u |-> [t \in DOMAIN u[k] |-> u[k][t] % m]]
         IN  IF ~r.given
             THEN IF u = <<>> THEN [raised |-> "IndexError"]
                  ELSE [raised |-> "None",
                        value  |-> _compositions_mod_(uu, [t \in DOMAIN uu[1] |-> 0], m)]
             ELSE [raised |-> "None",
                   value  |-> _compositions_mod_(
                                  uu, [t \in DOMAIN r.value |-> r.value[t] % m], m)]

\* ---------------------------------------------- compositions_mod: calls
Moduli == {2, 3, 6}

\* the coefficients and remainders tried: the residues 0..3 of Z/mZ
Coefs(m) == {c \in 0..(m - 1) : c \in {0, 1, 2, 3}}

Dims == {1, 2}

TuplesOver(S, n) == [1..n -> S]

TuplesUpTo(S, n) == UNION {TuplesOver(S, k) : k \in 0..n}

CmCalls(multidimensional) ==
    IF ~multidimensional
    THEN UNION {
             [op : {"compositions_mod"}, u : TuplesUpTo(Coefs(m), MaxLen), m : {m},
              r : {DefaultRemainder} \cup {Remainder(x) : x \in Coefs(m)},
              multidimensional : {FALSE}] : m \in Moduli}
    ELSE UNION {
             [op : {"compositions_mod"},
              u : TuplesUpTo(TuplesOver(Coefs(md[1]), md[2]), MaxLen), m : {md[1]},
              r : {DefaultRemainder}
                  \cup {Remainder(x) : x \in TuplesOver(Coefs(md[1]), md[2])},
              multidimensional : {TRUE}] : md \in Moduli \X Dims}

CmInit ==
    /\ \E multidimensional \in BOOLEAN : cm_in \in CmCalls(multidimensional)
    /\ cm_out = Pending
    /\ FdIdle /\ GfIdle /\ DmIdle /\ MfIdle /\ ScIdle /\ EgIdle /\ PpIdle /\ FcIdle

Call_compositions_mod ==
    /\ cm_out = Pending
    /\ cm_in.op = "compositions_mod"
    /\ cm_out' = Returned(compositions_mod(cm_in.u, cm_in.m, cm_in.r,
                                           cm_in.multidimensional))
    /\ UNCHANGED <<cm_in, fd_vars, gf_vars, dm_vars, mf_vars,
                   sc_vars, eg_vars, pp_vars,
                   fc_vars>>

CmNext == Call_compositions_mod

SpecCompositions == CmInit /\ [][CmNext]_vars

\* ---------------------------------------------- compositions_mod: claims
\* the call as vectors: each coefficient a column of d entries, the
\* remainder a vector of d entries
CmColumns ==
    IF cm_in.multidimensional THEN cm_in.u
    ELSE [k \in DOMAIN cm_in.u |-> <<cm_in.u[k]>>]

CmRemainder ==
    IF cm_in.multidimensional
    THEN IF cm_in.r.given THEN cm_in.r.value
         ELSE [t \in DOMAIN cm_in.u[1] |-> 0]
    ELSE <<IF cm_in.r.given THEN cm_in.r.value ELSE 0>>

\* a (a tuple of integers) solves a u^T = r mod m
Solves(a) ==
    /\ Len(a) = Len(CmColumns)
    /\ \A t \in DOMAIN CmRemainder :
           (SumSeq([k \in DOMAIN a |-> a[k] * CmColumns[k][t]])
            - CmRemainder[t]) % cm_in.m = 0

CmReturned ==
    /\ cm_in.op = "compositions_mod"
    /\ cm_out.done
    /\ cm_out.ret.raised = "None"

\* C5: every tuple that compositions_mod(u, m, r, multidimensional) yields
\* has as many entries as u and solves a u^T = r mod m, in every component
\* when multidimensional
C5_CompositionsSolve ==
    CmReturned =>
        \A n \in DOMAIN cm_out.ret.value :
            LET a == cm_out.ret.value[n]
            IN  /\ Len(a) = Len(cm_in.u)
                /\ Solves([k \in DOMAIN a |-> a[k].value])

\* a two-dimensional call modulo 6 that yields more than one tuple, one of
\* them with a nonzero entry, for a nonzero remainder
C5_Witness ==
    /\ CmReturned
    /\ cm_in.multidimensional /\ cm_in.m = 6
    /\ cm_in.r.given /\ cm_in.r.value = <<2, 0>>
    /\ Len(cm_in.u) = 2
    /\ Len(cm_out.ret.value) > 1
    /\ \E n \in DOMAIN cm_out.ret.value : cm_out.ret.value[n][2].value # 0

\* the additive order of the column u_k in (Z/mZ)^d
ColumnOrder(k) ==
    LET v == CmColumns[k]
    IN  CHOOSE n \in 1..cm_in.m :
            /\ \A t \in DOMAIN v : (n * v[t]) % cm_in.m = 0
            /\ \A n2 \in 1..(n - 1) : \E t \in DOMAIN v : (n2 * v[t]) % cm_in.m # 0

LexLess(a, b) ==
    \E k \in DOMAIN a :
        /\ a[k].value < b[k].value
        /\ \A k2 \in 1..(k - 1) : a[k2].value = b[k2].value

\* C6: compositions_mod enumerates all solutions: every integer solution a
\* has exactly one yielded b with b_k = a_k modulo the additive order of
\* u_k in (Z/mZ)^d; nothing is yielded twice, and the order is lexicographic
C6_CompositionsComplete ==
    CmReturned =>
        LET out == cm_out.ret.value
        IN  /\ \A a \in TuplesOver(0..(cm_in.m - 1), Len(cm_in.u)) :
                   Solves(a) =>
                       Cardinality({n \in DOMAIN out :
                           \A k \in DOMAIN a :
                               (out[n][k].value - a[k]) % ColumnOrder(k) = 0}) = 1
            /\ \A n1, n2 \in DOMAIN out : n1 < n2 => LexLess(out[n1], out[n2])

\* ================================================== generating_function
\* ------------------------------------------------------- linear algebra
\* A matrix is the tuple of its rows; columns are counted from 0 as in the
\* source. A rational is the record [p, q] in lowest terms with q > 0.
OK(value) == [raised |-> "None", value |-> value]

Raise(exception, msg) == [raised |-> exception, msg |-> msg]

QQ(n, d) ==
    LET g == Gcd(n, d)
    IN  IF d < 0 THEN [p |-> (-n) \div g, q |-> (-d) \div g]
        ELSE [p |-> n \div g, q |-> d \div g]

RECURSIVE SortedSeq(_)
SortedSeq(S) ==
    IF S = {} THEN <<>>
    ELSE LET x == CHOOSE x \in S : \A y \in S : x <= y
         IN  <<x>> \o SortedSeq(S \ {x})

RECURSIVE SetToSeq(_)
SetToSeq(S) ==
    IF S = {} THEN <<>>
    ELSE LET x == CHOOSE x \in S : TRUE
         IN  <<x>> \o SetToSeq(S \ {x})

Range(s) == {s[k] : k \in DOMAIN s}

Reverse(s) == [k \in DOMAIN s |-> s[Len(s) + 1 - k]]

RECURSIVE LcmAll(_)
LcmAll(S) ==
    IF S = {} THEN 1
    ELSE LET x == CHOOSE x \in S : TRUE
         IN  Lcm(x, LcmAll(S \ {x}))

nrows(E) == Len(E)

ncols(E) == IF E = <<>> THEN 0 ELSE Len(E[1])

matrix_from_columns(E, indices) ==
    [k \in DOMAIN E |-> [c \in DOMAIN indices |-> E[k][indices[c] + 1]]]

Submatrix(M, rows, cols) ==
    [r \in DOMAIN rows |-> [c \in DOMAIN cols |-> M[rows[r]][cols[c]]]]

Minor(M, i, j) ==
    [r \in 1..(Len(M) - 1) |->
        [c \in 1..(Len(M) - 1) |->
            M[IF r < i THEN r ELSE r + 1][IF c < j THEN c ELSE c + 1]]]

RECURSIVE det(_)
det(M) ==
    IF M = <<>> THEN 1
    ELSE SumSeq([j \in DOMAIN M |->
                    IF M[1][j] = 0 THEN 0
                    ELSE (IF j % 2 = 1 THEN 1 ELSE -1) * M[1][j]
                         * det(Minor(M, 1, j))])

cofactor(M, i, j) ==
    (IF (i + j) % 2 = 0 THEN 1 ELSE -1) * det(Minor(M, i, j))

\* the size of the largest square submatrix with a nonzero determinant
rank(M) ==
    MaxOf({0} \cup
          {n \in 1..nrows(M) :
              \E R \in SUBSET (1..nrows(M)), C \in SUBSET (1..ncols(M)) :
                  /\ Cardinality(R) = n
                  /\ Cardinality(C) = n
                  /\ det(Submatrix(M, SortedSeq(R), SortedSeq(C))) # 0})

\* "for i in reversed(indices_nonzero)" of prepare_equations_transformation,
\* with todo the indices still to visit
RECURSIVE prepare_equations_transformation_loop(_, _, _, _)
prepare_equations_transformation_loop(E, todo, indices, r) ==
    IF todo = <<>> THEN indices
    ELSE LET appended == Append(indices, Head(todo))
             r1       == rank(matrix_from_columns(E, appended))
         IN  IF r1 > r
             THEN IF Len(appended) >= nrows(E) THEN appended
                  ELSE prepare_equations_transformation_loop(
                           E, Tail(todo), appended, r1)
             ELSE prepare_equations_transformation_loop(E, Tail(todo), indices, r)

indices_nonzero(E) ==
    SortedSeq({i \in 1..(ncols(E) - 1) : \E k \in DOMAIN E : E[k][i + 1] # 0})

\* what prepare_equations_transformation does with the columns its loop picked
prepare_equations_transformation_picked(E, nonzero, picked) ==
    IF Len(picked) # nrows(E) THEN [raised |-> "AssertionError"]
    ELSE LET indices == Reverse(picked)
             A       == matrix_from_columns(E, indices)
         IN  [raised   |-> "None",
              \* A.inverse() * E: the inverse is the adjugate over det(A)
              TE       |-> [i \in DOMAIN E |->
                               [c \in 1..ncols(E) |->
                                   QQ(SumSeq([j \in DOMAIN E |->
                                                 cofactor(A, j, i) * E[j][c]]),
                                      det(A))]],
              indices  |-> indices,
              indicesn |-> <<0>> \o SelectSeq(nonzero,
                                        LAMBDA i : i \notin Range(indices))]

prepare_equations_transformation(E) ==
    prepare_equations_transformation_picked(
        E, indices_nonzero(E),
        prepare_equations_transformation_loop(
            E, Reverse(indices_nonzero(E)), <<>>, 0))

\* the dictionary {i-1: (aa.modulus(), ZZ(aa)) for i, aa in zip(TEin, a)
\* if aa.modulus() > 1}
mod_of(TEin, a) ==
    [x \in {TEin[k] - 1 : k \in {k \in DOMAIN TEin : a[k].modulus > 1}} |->
        LET k == CHOOSE k \in DOMAIN TEin : TEin[k] - 1 = x
        IN  <<a[k].modulus, a[k].value>>]

\* the dictionaries of the compositions pre_mods, in their order
mods_of(TEin, pre_mods) == [n \in DOMAIN pre_mods |-> mod_of(TEin, pre_mods[n])]

\* generate_mods once m, the lcm of the denominators of TE, is known
generate_mods_modulo(TE, TEin, m) ==
    IF m = 1 THEN OK(<< <<>> >>)
    ELSE LET \* cc*m for the entry cc of TE
             times_m(cc) == cc.p * (m \div cc.q)
             u == [n \in DOMAIN TEin |->
                      [k \in DOMAIN TE |-> times_m(TE[k][TEin[n] + 1])]]
             r == [k \in DOMAIN TE |-> -times_m(TE[k][1])]
         IN  OK(mods_of(TEin, compositions_mod(u, m, Remainder(r), TRUE).value))

generate_mods_transformed(T) ==
    IF T.raised # "None" THEN T
    ELSE generate_mods_modulo(
             T.TE, Tail(T.indicesn),
             LcmAll(UNION {{T.TE[i][c].q : c \in DOMAIN T.TE[i]} : i \in DOMAIN T.TE}))

generate_mods(equations) ==
    generate_mods_transformed(prepare_equations_transformation(equations))

\* ------------------------------------------------------------ polyhedra
\* A constraint is the tuple <<c0, c1, ..., cd>>: as an inequality it reads
\* c0 + c1 b0 + ... + cd b(d-1) >= 0, as an equation ... == 0. A polyhedron
\* is the record of what the handler asks of it: is_empty(), ambient_dim()
\* and the entries of Hrepresentation().
Dot(c, x) == c[1] + SumSeq([k \in DOMAIN x |-> c[k + 1] * x[k]])

Neg(c) == [k \in DOMAIN c |-> -c[k]]

\* c over the greatest common divisor of its entries
RECURSIVE GcdSeq(_)
GcdSeq(c) == IF c = <<>> THEN 0 ELSE Gcd(Head(c), GcdSeq(Tail(c)))

Primitive(c) ==
    LET g == GcdSeq(c)
    IN  IF g <= 1 THEN c ELSE [k \in DOMAIN c |-> c[k] \div g]

Weak(c) == [v |-> c, strict |-> FALSE]

Strict(c) == [v |-> c, strict |-> TRUE]

\* Fourier-Motzkin elimination: does a real point satisfy every constraint
\* of S (v >= 0, or v > 0 when strict)? The variables b0..b(k-1) remain.
RECURSIVE Feasible(_, _)
Feasible(S, k) ==
    IF k = 0
    THEN \A c \in S : IF c.strict THEN c.v[1] > 0 ELSE c.v[1] >= 0
    ELSE LET pos == {c \in S : c.v[k + 1] > 0}
             neg == {c \in S : c.v[k + 1] < 0}
             combine(p, n) ==
                 [v |-> Primitive([t \in 1..k |->
                            (-n.v[k + 1]) * p.v[t] + p.v[k + 1] * n.v[t]]),
                  strict |-> p.strict \/ n.strict]
         IN  Feasible({[v |-> SubSeq(c.v, 1, k), strict |-> c.strict] :
                          c \in S \ (pos \cup neg)}
                      \cup {combine(pn[1], pn[2]) : pn \in pos \X neg}, k - 1)

System(ieqs, eqns) ==
    {Weak(c) : c \in ieqs} \cup {Weak(c) : c \in eqns} \cup {Weak(Neg(c)) : c \in eqns}

\* a maximal linearly independent family of the rows todo, added to kept
RECURSIVE IndependentRows(_, _)
IndependentRows(todo, kept) ==
    IF todo = <<>> THEN kept
    ELSE LET appended == Append(kept, Head(todo))
         IN  IF rank(appended) = Len(appended)
             THEN IndependentRows(Tail(todo), appended)
             ELSE IndependentRows(Tail(todo), kept)

\* the inequalities left once those implied by the others are dropped
RECURSIVE Irredundant(_, _, _)
Irredundant(ieqs, eqns, d) ==
    LET implied == {c \in ieqs :
                       ~Feasible(System(ieqs \ {c}, eqns) \cup {Strict(Neg(c))}, d)}
    IN  IF implied = {} THEN ieqs
        ELSE Irredundant(ieqs \ {CHOOSE c \in implied : TRUE}, eqns, d)

\* Polyhedron(ieqs=..., eqns=...) in d dimensions: the constructor keeps a
\* minimal H-representation, the equations of the affine hull (the equations
\* given and the inequalities that hold with equality throughout) and the
\* inequalities that are not implied by the rest; the empty polyhedron has
\* the one entry "An equation -1 == 0"
EmptyPolyhedron(d) ==
    [is_empty |-> TRUE, ambient_dim |-> d, inequalities |-> <<>>,
     equations |-> <<[k \in 1..(d + 1) |-> IF k = 1 THEN -1 ELSE 0]>>]

NonemptyPolyhedron(d, ieqs, hull) ==
    [is_empty |-> FALSE, ambient_dim |-> d,
     inequalities |-> SetToSeq(Irredundant({Primitive(c) : c \in ieqs},
                                           Range(hull), d)),
     equations |-> hull]

\* the inequalities that hold with equality throughout
Tight(d, ieqs, eqns) ==
    {c \in ieqs : ~Feasible(System(ieqs, eqns) \cup {Strict(c)}, d)}

AffineHull(eqns, tight) ==
    IndependentRows(SetToSeq({Primitive(c) : c \in eqns \cup tight}), <<>>)

PolyhedronWithTight(d, ieqs, eqns, tight) ==
    NonemptyPolyhedron(d, ieqs \ tight, AffineHull(eqns, tight))

Polyhedron(d, ieqs, eqns) ==
    IF ~Feasible(System(ieqs, eqns), d) THEN EmptyPolyhedron(d)
    ELSE PolyhedronWithTight(d, ieqs, eqns, Tight(d, ieqs, eqns))

\* polyhedron & other
Intersection(P, Q) ==
    IF P.is_empty THEN P
    ELSE IF Q.is_empty THEN Q
    ELSE Polyhedron(P.ambient_dim,
                    Range(P.inequalities) \cup Range(Q.inequalities),
                    Range(P.equations) \cup Range(Q.equations))

\* the point x (a tuple of d numbers) lies in P
Contains(P, x) ==
    /\ ~P.is_empty
    /\ \A k \in DOMAIN P.inequalities : Dot(P.inequalities[k], x) >= 0
    /\ \A k \in DOMAIN P.equations : Dot(P.equations[k], x) = 0

\* Permutations(d), in its lexicographic order
RECURSIVE LexSorted(_)
LexSorted(S) ==
    IF S = {} THEN <<>>
    ELSE LET p == CHOOSE p \in S : \A q \in S \ {p} :
                      \E k \in DOMAIN p :
                          /\ p[k] < q[k]
                          /\ \A k2 \in 1..(k - 1) : p[k2] = q[k2]
         IN  <<p>> \o LexSorted(S \ {p})

PermutationsOf(d) ==
    LexSorted({p \in [1..d -> 1..d] : \A a, b \in 1..d : p[a] = p[b] => a = b})

\* ------------------------------------ generating_function_of_polyhedron
\* Factorization([], unit=0)
ZeroFactorization == [factorization |-> "zero"]

\* the Factorization that __generating_function_of_polyhedron__ computes
\* from its arguments
__generating_function_of_polyhedron__(indices, inequalities, equations, mod) ==
    [factorization |-> "__generating_function_of_polyhedron__",
     indices |-> indices, inequalities |-> inequalities,
     equations |-> equations, mod |-> mod]

Summandization(summands) == [summandization |-> summands]

\* mutant of _generating_function_of_polyhedron_: no splitting by moduli
_generating_function_of_polyhedron_no_mods(polyhedron) ==
    IF polyhedron.is_empty THEN OK(<<ZeroFactorization>>)
    ELSE IF polyhedron.inequalities = <<>>
    THEN Raise("NotImplementedError", "no inequality given")
    ELSE OK(<<__generating_function_of_polyhedron__(
                  [k \in 1..(Len(polyhedron.inequalities[1]) - 1) |-> k - 1],
                  polyhedron.inequalities, polyhedron.equations, <<>>)>>)

\* "tuple(__generating_function_of_polyhedron__(...) for mod in mods)"
generating_functions_of_mods(polyhedron, indices, mods) ==
    IF mods.raised # "None" THEN mods
    ELSE OK([k \in DOMAIN mods.value |->
                __generating_function_of_polyhedron__(
                    indices, polyhedron.inequalities,
                    polyhedron.equations, mods.value[k])])

_generating_function_of_polyhedron_(polyhedron) ==
    IF polyhedron.is_empty THEN OK(<<ZeroFactorization>>)
    ELSE IF polyhedron.inequalities = <<>>
    THEN Raise("NotImplementedError", "no inequality given")
    ELSE IF \E k \in DOMAIN polyhedron.inequalities :
                Len(polyhedron.inequalities[k]) # Len(polyhedron.inequalities[1])
    THEN Raise("ValueError", "Not all coefficient vectors of the inequalities have the same length.")
    ELSE IF \E k \in DOMAIN polyhedron.equations :
                Len(polyhedron.equations[k]) # Len(polyhedron.inequalities[1])
    THEN Raise("ValueError", "Not all coefficient vectors of the equations have the same length.")
    ELSE generating_functions_of_mods(
             polyhedron,
             \* indices = range(len(inequalities[0]) - 1)
             [k \in 1..(Len(polyhedron.inequalities[1]) - 1) |-> k - 1],
             generate_mods(polyhedron.equations))

\* mutant of split_ieqs: b(a-1) <= b(b-1) whatever the order of a and b
split_ieqs_weak(d, pi) ==
    {[i \in 1..(d + 1) |->
         IF i - 1 = pi[k + 1] THEN 1
         ELSE IF i - 1 = pi[k] THEN -1
         ELSE 0] : k \in 1..(d - 1)}

\* the inequalities of the polyhedron that split=True builds for pi:
\* b(a-1) <= b(b-1) for neighbours a < b in pi, b(a-1) < b(b-1) for a > b
split_ieqs(d, pi) ==
    {[i \in 1..(d + 1) |->
         IF i - 1 = pi[k + 1] THEN 1
         ELSE IF i - 1 = pi[k] \/ (i - 1 = 0 /\ pi[k] > pi[k + 1]) THEN -1
         ELSE 0] : k \in 1..(d - 1)}

\* the polyhedra that split=True splits by, one for each pi of permutations
split_by(d, permutations) ==
    [n \in DOMAIN permutations |-> Polyhedron(d, split_ieqs(d, permutations[n]), {})]

split_polyhedra(d) == split_by(d, PermutationsOf(d))

\* the split argument: False, True, or a list of polyhedra
SplitFalse == [kind |-> "False"]

SplitTrue == [kind |-> "True"]

\* bool(x), for x a value of split or of result_as_tuple
Truthy(x) ==
    IF x = "True" THEN TRUE
    ELSE IF x = "False" \/ x = "None" THEN FALSE
    ELSE TRUE

\* result_as_tuple as the handler tests it, after "result_as_tuple = split"
as_tuple(split, result_as_tuple) ==
    IF result_as_tuple = "None"
    THEN (IF split.kind = "list" THEN split.polyhedra # <<>>
          ELSE Truthy(split.kind))
    ELSE Truthy(result_as_tuple)

RECURSIVE Concat(_)
Concat(ss) == IF ss = <<>> THEN <<>> ELSE Head(ss) \o Concat(Tail(ss))

\* the end of the branch "if split is False", result the helper's outcome
unsplit_return(result_as_tuple, result) ==
    IF result.raised # "None" THEN result
    ELSE IF result_as_tuple THEN OK(Summandization(result.value))
    ELSE IF Len(result.value) # 1
    THEN Raise("ValueError", "Cannot unpack result. (Set 'result_as_tuple=True'.)")
    ELSE OK(result.value[1])

\* "for split_polyhedron, pi_log in split: result.append(...)"
split_results(polyhedron, pieces) ==
    [k \in DOMAIN pieces |->
        _generating_function_of_polyhedron_(Intersection(polyhedron, pieces[k]))]

\* mutant of split_return: the summands are returned whatever
\* result_as_tuple is
split_return_unchecked(result_as_tuple, result) ==
    IF \E k \in DOMAIN result : result[k].raised # "None"
    THEN result[CHOOSE k \in DOMAIN result :
                    /\ result[k].raised # "None"
                    /\ \A k2 \in 1..(k - 1) : result[k2].raised = "None"]
    ELSE OK(Summandization(Concat([k \in DOMAIN result |-> result[k].value])))

\* the end of the splitting branch: the first exception of the loop if there
\* is one, else the ValueError or the Summandization of all summands
split_return(result_as_tuple, result) ==
    IF \E k \in DOMAIN result : result[k].raised # "None"
    THEN result[CHOOSE k \in DOMAIN result :
                    /\ result[k].raised # "None"
                    /\ \A k2 \in 1..(k - 1) : result[k2].raised = "None"]
    ELSE IF ~result_as_tuple
    THEN Raise("ValueError", "Cannot unpack result.(Unset 'result_as_tuple=False'.)")
    ELSE OK(Summandization(Concat([k \in DOMAIN result |-> result[k].value])))

\* mutant of generating_function_of_polyhedron: the dimension is looked at
\* before the polyhedron is tested for emptiness
generating_function_of_polyhedron_dimension_first(polyhedron, split, result_as_tuple) ==
    IF split.kind # "False" /\ polyhedron.ambient_dim <= 1
    THEN Raise("ValueError", "Cannot do splitting with only dimension")
    ELSE IF polyhedron.is_empty
    THEN IF as_tuple(split, result_as_tuple)
         THEN OK(Summandization(<<ZeroFactorization>>))
         ELSE OK(ZeroFactorization)
    ELSE IF split.kind = "False"
    THEN unsplit_return(as_tuple(split, result_as_tuple),
                        _generating_function_of_polyhedron_(polyhedron))
    ELSE split_return(
             as_tuple(split, result_as_tuple),
             split_results(polyhedron,
                           IF split.kind = "True"
                           THEN split_polyhedra(polyhedron.ambient_dim)
                           ELSE split.polyhedra))

generating_function_of_polyhedron(polyhedron, split, result_as_tuple) ==
    IF polyhedron.is_empty
    THEN IF as_tuple(split, result_as_tuple)
         THEN OK(Summandization(<<ZeroFactorization>>))
         ELSE OK(ZeroFactorization)
    ELSE IF split.kind = "False"
    THEN unsplit_return(as_tuple(split, result_as_tuple),
                        _generating_function_of_polyhedron_(polyhedron))
    ELSE IF polyhedron.ambient_dim <= 1
    THEN Raise("ValueError", "Cannot do splitting with only dimension")
    ELSE split_return(
             as_tuple(split, result_as_tuple),
             split_results(polyhedron,
                           IF split.kind = "True"
                           THEN split_polyhedra(polyhedron.ambient_dim)
                           ELSE split.polyhedra))

\* ----------------------------- generating_function_of_polyhedron: calls
\* the constraints the polyhedra of the calls are built from, in d
\* dimensions: b_i >= 0, b_0 <= 1, b_0 >= 1, b_i >= b_j
Unit(d, i) == [k \in 1..(d + 1) |-> IF k = i + 1 THEN 1 ELSE 0]

IeqChoices(d) ==
    {Unit(d, i) : i \in 1..d}
    \cup {[k \in 1..(d + 1) |-> IF k = 1 THEN 1 ELSE -Unit(d, 1)[k]],
          [k \in 1..(d + 1) |-> IF k = 1 THEN -1 ELSE Unit(d, 1)[k]]}
    \cup {[k \in 1..(d + 1) |-> Unit(d, ij[1])[k] - Unit(d, ij[2])[k]] :
             ij \in {ij \in (1..d) \X (1..d) : ij[1] # ij[2]}}

EqnChoices(d) ==
    IF d = 1 THEN {<<-1, 2>>, <<0, 1>>}
    ELSE IF d = 2 THEN {<<0, 1, -2>>, <<-1, 0, 2>>, <<0, 1, -1>>, <<-1, 1, 1>>}
    ELSE {<<0, -1, -1, 2>>, <<0, 1, 0, -2>>, <<-1, 0, 0, 2>>, <<0, 1, -1, 0>>}

AmbientDims == {1, 2, 3}

\* the whole space is left out: the entries of its Hrepresentation() are
\* not determined by the sources at hand
PolyhedraOfDim(d) ==
    {P \in {Polyhedron(d, ieqs, eqns) :
                ieqs \in {I \in SUBSET IeqChoices(d) : Cardinality(I) <= MaxIeqs},
                eqns \in {E \in SUBSET EqnChoices(d) : Cardinality(E) <= 1}} :
        P.is_empty \/ P.inequalities # <<>> \/ P.equations # <<>>}

\* split given as a list of polyhedra
SplitList(polyhedra) == [kind |-> "list", polyhedra |-> polyhedra]

\* the lists that split is given as in d dimensions: the empty list, the
\* two half-spaces b_0 >= 1 and b_0 <= 0, and the hyperplane b_0 = 1
SplitLists(d) ==
    {SplitList(<<>>),
     SplitList(<<Polyhedron(d, {[k \in 1..(d + 1) |->
                                   IF k = 1 THEN -1 ELSE Unit(d, 1)[k]]}, {}),
                 Polyhedron(d, {[k \in 1..(d + 1) |-> -Unit(d, 1)[k]]}, {})>>),
     SplitList(<<Polyhedron(d, {}, {[k \in 1..(d + 1) |->
                                   IF k = 1 THEN -1 ELSE Unit(d, 1)[k]]})>>)}

GfCalls ==
    UNION {[op : {"generating_function_of_polyhedron"},
            polyhedron : PolyhedraOfDim(d),
            split : {SplitFalse, SplitTrue} \cup SplitLists(d),
            result_as_tuple : {"None", "True", "False"}] : d \in AmbientDims}

GfInit ==
    /\ gf_in \in GfCalls
    /\ gf_out = Pending
    /\ FdIdle /\ CmIdle /\ DmIdle /\ MfIdle /\ ScIdle /\ EgIdle /\ PpIdle /\ FcIdle

Call_generating_function_of_polyhedron ==
    /\ gf_out = Pending
    /\ gf_in.op = "generating_function_of_polyhedron"
    /\ gf_out' = Returned(generating_function_of_polyhedron(
                              gf_in.polyhedron, gf_in.split, gf_in.result_as_tuple))
    /\ UNCHANGED <<gf_in, fd_vars, cm_vars, dm_vars, mf_vars,
                   sc_vars, eg_vars, pp_vars,
                   fc_vars>>

GfNext == Call_generating_function_of_polyhedron

SpecGeneratingFunction == GfInit /\ [][GfNext]_vars

\* ---------------------------- generating_function_of_polyhedron: claims
GfCalled == gf_in.op = "generating_function_of_polyhedron"

RECURSIVE Factorial(_)
Factorial(n) == IF n <= 1 THEN 1 ELSE n * Factorial(n - 1)

\* the integer points looked at
Box(d) == TuplesOver((-MaxCoord)..MaxCoord, d)

\* every integer point of the box lies in exactly one of the polyhedra that
\* split=True splits by in dimension d, and there are d! of them
SplitPartitions(d) ==
    LET pieces == split_polyhedra(d)
    IN  /\ Len(pieces) = Factorial(d)
        /\ \A x \in Box(d) :
               Cardinality({k \in DOMAIN pieces : Contains(pieces[k], x)}) = 1

SplitPartitionsTable == [d \in AmbientDims \ {1} |-> SplitPartitions(d)]

\* C4: with split=True and ambient dimension d >= 2, the d! polyhedra built
\* from the permutations are pairwise disjoint and cover Z^d: every integer
\* point lies in exactly one of them, and so every integer point of the
\* polyhedron lies in exactly one of its intersections with them
C4_SplitPartition ==
    (GfCalled /\ gf_in.split.kind = "True" /\ gf_in.polyhedron.ambient_dim >= 2) =>
        LET d      == gf_in.polyhedron.ambient_dim
            pieces == split_polyhedra(d)
            parts  == [k \in DOMAIN pieces |->
                          Intersection(gf_in.polyhedron, pieces[k])]
        IN  /\ SplitPartitionsTable[d]
            /\ gf_out.done =>
                   \A x \in {x \in Box(d) : Contains(gf_in.polyhedron, x)} :
                       Cardinality({k \in DOMAIN parts : Contains(parts[k], x)}) = 1

\* a split call in three dimensions that returned the summands of a
\* polyhedron holding a point with two equal coordinates
C4_Witness ==
    /\ GfCalled /\ gf_in.split.kind = "True" /\ gf_out.done
    /\ gf_in.polyhedron.ambient_dim = 3
    /\ Contains(gf_in.polyhedron, <<1, 1, 0>>)
    /\ gf_out.ret.raised = "None"
    /\ Len(gf_out.ret.value.summandization) >= 2

\* what the unsplit computation has to return for P: one summand for each
\* modulus class of generate_mods
ExpectedSummands(P) ==
    LET mods == generate_mods(P.equations).value
    IN  [k \in DOMAIN mods |->
            __generating_function_of_polyhedron__(
                [i \in 1..P.ambient_dim |-> i - 1],
                P.inequalities, P.equations, mods[k])]

GfUnsplit ==
    /\ GfCalled /\ gf_out.done
    /\ gf_in.split.kind = "False"
    /\ ~gf_in.polyhedron.is_empty

GfAsTuple == gf_in.result_as_tuple = "True"

CannotUnpack(ret) ==
    /\ ret.raised = "ValueError"
    /\ ret.msg = "Cannot unpack result. (Set 'result_as_tuple=True'.)"

C10_NoInequality ==
    /\ GfUnsplit
    /\ gf_in.polyhedron.inequalities = <<>>
    /\ gf_out.ret.raised = "NotImplementedError"

\* bool(result_as_tuple) after "if result_as_tuple is None:
\* result_as_tuple = split", as the claims read it: None stands for split,
\* a list is true when it has an entry
GfTruthy ==
    \/ gf_in.result_as_tuple = "True"
    \/ /\ gf_in.result_as_tuple = "None"
       /\ \/ gf_in.split.kind = "True"
          \/ gf_in.split.kind = "list" /\ Len(gf_in.split.polyhedra) > 0

\* C11: on an empty polyhedron the call returns the zero generating
\* function for every value of split and of the ambient dimension, without
\* raising: the Factorization with unit 0 and no factors when
\* result_as_tuple (split when it is None) is falsy, a Summandization
\* holding exactly that one Factorization when it is truthy
C11_EmptyPolyhedron ==
    (GfCalled /\ gf_out.done /\ gf_in.polyhedron.is_empty) =>
        gf_out.ret = IF GfTruthy
                     THEN OK(Summandization(<<ZeroFactorization>>))
                     ELSE OK(ZeroFactorization)

\* a call on an empty polyhedron of dimension one that asks for splitting
\* by a list and returned the Summandization of zero
C11_Witness ==
    /\ GfCalled /\ gf_out.done /\ gf_in.polyhedron.is_empty
    /\ gf_in.polyhedron.ambient_dim = 1
    /\ gf_in.split.kind = "list"
    /\ gf_in.result_as_tuple = "None"
    /\ gf_out.ret = OK(Summandization(<<ZeroFactorization>>))

GfSplit ==
    /\ GfCalled /\ gf_out.done
    /\ gf_in.split.kind # "False"
    /\ ~gf_in.polyhedron.is_empty

\* the polyhedra the call splits by
GfPieces ==
    IF gf_in.split.kind = "True"
    THEN split_polyhedra(gf_in.polyhedron.ambient_dim)
    ELSE gf_in.split.polyhedra

\* the polyhedron intersected with each piece, in splitting order
GfParts(pieces) ==
    [k \in DOMAIN pieces |-> Intersection(gf_in.polyhedron, pieces[k])]

\* the summands of a part: zero for an empty one
PartSummands(Q) ==
    IF Q.is_empty THEN <<ZeroFactorization>> ELSE ExpectedSummands(Q)

AllSummands(parts) == Concat([k \in DOMAIN parts |-> PartSummands(parts[k])])

NoInequality(Q) == ~Q.is_empty /\ Q.inequalities = <<>>

CannotSplit(ret) ==
    /\ ret.raised = "ValueError"
    /\ ret.msg = "Cannot do splitting with only dimension"

CannotUnpackSplit(ret) ==
    /\ ret.raised = "ValueError"
    /\ ret.msg = "Cannot unpack result.(Unset 'result_as_tuple=False'.)"

C12_AmendedFor(parts) ==
    IF gf_in.polyhedron.ambient_dim <= 1 THEN CannotSplit(gf_out.ret)
    ELSE IF \E k \in DOMAIN parts : NoInequality(parts[k])
    THEN gf_out.ret = Raise("NotImplementedError", "no inequality given")
    ELSE IF ~GfTruthy THEN CannotUnpackSplit(gf_out.ret)
    ELSE gf_out.ret = OK(Summandization(AllSummands(parts)))

C12_NoInequality ==
    /\ GfSplit
    /\ gf_in.polyhedron.ambient_dim >= 2
    /\ gf_out.ret.raised = "NotImplementedError"

\* ================================================= FiniteDrinfeldModule
\* The base field L = Fq.extension(n) is the pair <<q, n>>. An element of
\* L is 0 for zero and k >= 1 for the power z^(k-1) of a generator z of its
\* multiplicative group. An Ore polynomial over L is the tuple of its
\* coefficients, the coefficient of t^k at index k + 1.
RECURSIVE Power(_, _)
Power(b, e) == IF e = 0 THEN 1 ELSE b * Power(b, e - 1)

FieldElements(L) == 0..(Power(L[1], L[2]) - 1)

\* a^e in L
FieldPower(L, a, e) ==
    IF a = 0 THEN 0 ELSE 1 + (((a - 1) * e) % (Power(L[1], L[2]) - 1))

\* t^deg
t_power(deg) == [k \in 1..(deg + 1) |-> IF k = deg + 1 THEN 1 ELSE 0]

\* t^deg * f, by the rule t a = a^q t for a in L
t_power_times(L, deg, f) ==
    [k \in 1..(Len(f) + deg) |->
        IF k <= deg THEN 0 ELSE FieldPower(L, f[k - deg], Power(L[1], deg))]

\* f * t^deg
times_t_power(f, deg) ==
    [k \in 1..(Len(f) + deg) |-> IF k <= deg THEN 0 ELSE f[k - deg]]

\* FiniteDrinfeldModule.__init__: the module X |--> gen over L
FiniteDrinfeldModule(L, gen) ==
    [_function_ring |-> [base_ring |-> L[1]], _base_ring |-> L, _gen |-> gen,
     _frobenius_norm |-> None, _frobenius_trace |-> None]

\* the rank of a Drinfeld module is the degree of its generator
module_rank(phi) == Len(phi._gen) - 1

\* DrinfeldModuleHomset.__init__
DrinfeldModuleHomset(X, Y) == [_domain |-> X, _codomain |-> Y]

\* DrinfeldModuleHomset._element_constructor_ on the Ore polynomial t^deg:
\* the morphism is built when t^deg * gen(X) = gen(Y) * t^deg
_element_constructor_(homset, deg) ==
    LET L == homset._domain._base_ring
    IN  IF t_power_times(L, deg, homset._domain._gen)
                = times_t_power(homset._codomain._gen, deg)
        THEN OK([_domain |-> homset._domain, _codomain |-> homset._codomain,
                 _ore_polynomial |-> t_power(deg)])
        ELSE Raise("ValueError", "Ore polynomial does not define a morphism")

\* FiniteDrinfeldModule.frobenius_endomorphism
frobenius_endomorphism(self) ==
    LET L   == self._base_ring
        deg == L[2]
    IN  _element_constructor_(DrinfeldModuleHomset(self, self), deg)

\* A method that may assign attributes gives back its outcome and the
\* object as it leaves it.
Outcome(ret, self) == [ret |-> ret, self |-> self]

\* DrinfeldModule._check_rank_two
_check_rank_two(self) ==
    IF module_rank(self) # 2
    THEN Raise("NotImplementedError", "rank must be two")
    ELSE OK(None)

\* self._gen[k], zero beyond the degree
gen_coefficient(self, k) ==
    IF k + 1 \in DOMAIN self._gen THEN self._gen[k + 1] ELSE 0

\* self.characteristic(): the minimal polynomial over Fq of the constant
\* coefficient, given by its root and its degree
RECURSIVE conjugates_until(_, _, _)
conjugates_until(L, a, d) ==
    IF d >= L[2] \/ FieldPower(L, a, Power(L[1], d)) = a THEN d
    ELSE conjugates_until(L, a, d + 1)

characteristic(self) ==
    [minimal_polynomial_of |-> gen_coefficient(self, 0),
     degree |-> conjugates_until(self._base_ring, gen_coefficient(self, 0), 1)]

\* self._base_ring.over(self._Fq)(delta).norm()
field_norm(L, delta) ==
    FieldPower(L, delta, (Power(L[1], L[2]) - 1) \div (L[1] - 1))

\* ((-1)**n) * (self.characteristic()**m) / norm
frobenius_norm_value(self) ==
    LET L == self._base_ring
        n == L[2]
        d == characteristic(self).degree
        m == n \div d
    IN  [sign |-> Power(-1, n), characteristic |-> characteristic(self),
         exponent |-> m, divided_by |-> field_norm(L, gen_coefficient(self, 2))]

\* mutant of frobenius_norm: the rank is looked at after the computation
frobenius_norm_checked_last(self) ==
    LET computed == IF self._frobenius_norm = None
                    THEN [self EXCEPT !._frobenius_norm =
                                          frobenius_norm_value(self)]
                    ELSE self
    IN  IF _check_rank_two(self).raised # "None"
        THEN Outcome(_check_rank_two(self), computed)
        ELSE Outcome(OK(computed._frobenius_norm), computed)

\* FiniteDrinfeldModule.frobenius_norm
frobenius_norm(self) ==
    IF _check_rank_two(self).raised # "None"
    THEN Outcome(_check_rank_two(self), self)
    ELSE IF self._frobenius_norm = None
    THEN Outcome(OK(frobenius_norm_value(self)),
                 [self EXCEPT !._frobenius_norm = frobenius_norm_value(self)])
    ELSE Outcome(OK(self._frobenius_norm), self)

\* self.invert(t**n + (self(B) // t**n))
frobenius_trace_value(self, B) ==
    [invert |-> [t_power |-> self._base_ring[2], B |-> B]]

\* FiniteDrinfeldModule.frobenius_trace
frobenius_trace(self) ==
    IF _check_rank_two(self).raised # "None"
    THEN Outcome(_check_rank_two(self), self)
    ELSE IF self._frobenius_trace = None
    THEN LET B == frobenius_norm(self)
         IN  IF B.ret.raised # "None" THEN B
             ELSE Outcome(OK(frobenius_trace_value(B.self, B.ret.value)),
                          [B.self EXCEPT !._frobenius_trace =
                              frobenius_trace_value(B.self, B.ret.value)])
    ELSE Outcome(OK(self._frobenius_trace), self)

\* FiniteDrinfeldModule.frobenius_charpoly:
\* S([self.frobenius_norm(), -self.frobenius_trace(), 1])
frobenius_charpoly(self) ==
    IF _check_rank_two(self).raised # "None"
    THEN Outcome(_check_rank_two(self), self)
    ELSE LET B == frobenius_norm(self)
             A == frobenius_trace(B.self)
         IN  IF B.ret.raised # "None" THEN B
             ELSE IF A.ret.raised # "None" THEN A
             ELSE Outcome(OK(<<B.ret.value, [minus |-> A.ret.value], 1>>),
                          A.self)

\* FiniteDrinfeldModule.is_supersingular:
\* self.characteristic().divides(self.frobenius_trace())
is_supersingular(self) ==
    IF _check_rank_two(self).raised # "None"
    THEN Outcome(_check_rank_two(self), self)
    ELSE LET A == frobenius_trace(self)
         IN  IF A.ret.raised # "None" THEN A
             ELSE Outcome(OK([divides |-> characteristic(self),
                              dividend |-> A.ret.value]), A.self)

\* FiniteDrinfeldModule.is_ordinary: not self.is_supersingular()
is_ordinary(self) ==
    IF _check_rank_two(self).raised # "None"
    THEN Outcome(_check_rank_two(self), self)
    ELSE LET s == is_supersingular(self)
         IN  IF s.ret.raised # "None" THEN s
             ELSE Outcome(OK([not |-> s.ret.value]), s.self)

\* --------------------------------------------------------------- calls
FiniteFields == {2, 3} \X {1, 2}

\* the generators of the Drinfeld modules of a rank over L: neither the
\* constant nor the leading coefficient is zero
GeneratorsOfRank(L, r) ==
    {gen \in [1..(r + 1) -> FieldElements(L)] : gen[1] # 0 /\ gen[r + 1] # 0}

FrobeniusMethods ==
    {"frobenius_charpoly", "frobenius_norm", "frobenius_trace",
     "is_ordinary", "is_supersingular"}

DmInit ==
    /\ \E L \in FiniteFields, r \in 1..MaxRank :
          \E gen \in GeneratorsOfRank(L, r) :
              dm_phi = FiniteDrinfeldModule(L, gen)
    /\ \E op \in {"frobenius_endomorphism"} \cup FrobeniusMethods :
          dm_in = [op |-> op]
    /\ dm_out = Pending
    /\ FdIdle /\ CmIdle /\ GfIdle /\ MfIdle /\ ScIdle /\ EgIdle /\ PpIdle /\ FcIdle

Call_frobenius_endomorphism ==
    /\ dm_out = Pending
    /\ dm_in.op = "frobenius_endomorphism"
    /\ dm_out' = Returned(frobenius_endomorphism(dm_phi))
    /\ UNCHANGED <<dm_phi, dm_in, fd_vars, cm_vars, gf_vars, mf_vars,
                   sc_vars, eg_vars, pp_vars,
                   fc_vars>>

\* a method returns or raises, and leaves the module as it made it
DmReturn(op, outcome) ==
    /\ dm_out = Pending
    /\ dm_in.op = op
    /\ dm_out' = Returned(outcome.ret)
    /\ dm_phi' = outcome.self
    /\ UNCHANGED <<dm_in, fd_vars, cm_vars, gf_vars, mf_vars,
                   sc_vars, eg_vars, pp_vars,
                   fc_vars>>

Call_frobenius_charpoly ==
    DmReturn("frobenius_charpoly", frobenius_charpoly(dm_phi))

Call_frobenius_norm == DmReturn("frobenius_norm", frobenius_norm(dm_phi))

Call_frobenius_trace == DmReturn("frobenius_trace", frobenius_trace(dm_phi))

Call_is_ordinary == DmReturn("is_ordinary", is_ordinary(dm_phi))

Call_is_supersingular == DmReturn("is_supersingular", is_supersingular(dm_phi))

\* the caller goes on with another method of the same module
DmCallAgain ==
    /\ dm_out.done
    /\ \E op \in FrobeniusMethods : dm_in' = [op |-> op]
    /\ dm_out' = Pending
    /\ UNCHANGED <<dm_phi, fd_vars, cm_vars, gf_vars, mf_vars,
                   sc_vars, eg_vars, pp_vars,
                   fc_vars>>

DmNext ==
    \/ Call_frobenius_endomorphism
    \/ Call_frobenius_charpoly
    \/ Call_frobenius_norm
    \/ Call_frobenius_trace
    \/ Call_is_ordinary
    \/ Call_is_supersingular
    \/ DmCallAgain

SpecDrinfeldModule == DmInit /\ [][DmNext]_vars

\* -------------------------------------------------------------- claims
DmCalled(op) == dm_in.op = op /\ dm_out.done

\* the endomorphism of phi defined by the Ore polynomial t^n, n = [L : Fq]
FrobeniusOf(phi) ==
    [_domain |-> phi, _codomain |-> phi,
     _ore_polynomial |-> t_power(phi._base_ring[2])]

\* C8: frobenius_endomorphism() returns the Frobenius endomorphism, the
\* morphism defined by t^n with n the degree of the base field over Fq, if
\* the rank of the Drinfeld module is two, and raises NotImplementedError
\* otherwise.
C8_FrobeniusEndomorphism ==
    DmCalled("frobenius_endomorphism") =>
        IF module_rank(dm_phi) = 2
        THEN dm_out.ret = OK(FrobeniusOf(dm_phi))
        ELSE dm_out.ret.raised = "NotImplementedError"

\* what the method does: the Frobenius endomorphism whatever the rank
C8_FrobeniusWhateverRank ==
    DmCalled("frobenius_endomorphism") => dm_out.ret = OK(FrobeniusOf(dm_phi))

\* C19: on a module whose rank is not two, frobenius_charpoly,
\* frobenius_norm, frobenius_trace, is_ordinary and is_supersingular raise
\* NotImplementedError before they compute anything: _frobenius_norm and
\* _frobenius_trace keep the None of the construction
C19_RankNotTwo ==
    module_rank(dm_phi) # 2 =>
        /\ dm_phi._frobenius_norm = None
        /\ dm_phi._frobenius_trace = None
        /\ (dm_out.done /\ dm_in.op \in FrobeniusMethods) =>
              dm_out.ret.raised = "NotImplementedError"

\* is_ordinary() was called on a module of rank three and raised
C19_Witness ==
    /\ DmCalled("is_ordinary")
    /\ module_rank(dm_phi) = 3
    /\ dm_out.ret = Raise("NotImplementedError", "rank must be two")
    /\ dm_phi._frobenius_trace = None

\* in rank two the calls do assign the attributes
C19_RankTwoCached ==
    /\ DmCalled("frobenius_trace")
    /\ module_rank(dm_phi) = 2
    /\ dm_phi._frobenius_norm # None
    /\ dm_phi._frobenius_trace # None

\* ================================================= DrinfeldModularForms
\* The base ring Frac(GF(q)['T']) is given by q, a prime. A polynomial of
\* GF(q)['T'] is the tuple of its coefficients without trailing zero, the
\* coefficient of T^k at index k + 1, so that its degree is Len - 1 and the
\* degree of zero is -1. An element of the base ring is a fraction in
\* lowest terms; the denominators looked at are the powers of T.
degree(a) == Len(a) - 1

\* the quotient numerator / denominator of the base ring, in lowest terms
FractionFieldElement(numerator, denominator) ==
    LET zeros == {k \in 0..Len(numerator) :
                    \A j \in 1..k : numerator[j] = 0}
        e     == IF numerator = <<>> THEN degree(denominator)
                 ELSE MaxOf(zeros \cap (0..degree(denominator)))
    IN  [numerator   |-> SubSeq(numerator, e + 1, Len(numerator)),
         denominator |-> SubSeq(denominator, e + 1, Len(denominator))]

\* self._base_ring(a)
base_ring_call(a) ==
    IF a.kind = "fraction"
    THEN OK(FractionFieldElement(a.numerator, a.denominator))
    ELSE Raise("TypeError", "no canonical coercion to the base ring")

\* A polynomial in T and the generators over GF(q) is the set of its terms
\* <<exponents, coefficient>>, exponents[1] the exponent of T and
\* exponents[j + 1] the one of the j-th generator, coefficient in 1..q-1.
term_coefficient(P, m) ==
    IF \E s \in P : s[1] = m THEN (CHOOSE s \in P : s[1] = m)[2] ELSE 0

nonzero_terms(P) == {s \in P : s[2] # 0}

polynomial_add(q, P, Q) ==
    nonzero_terms({<<m, (term_coefficient(P, m) + term_coefficient(Q, m)) % q>> :
                     m \in {s[1] : s \in P \cup Q}})

polynomial_scale(q, c, P) ==
    nonzero_terms({<<s[1], (c * s[2]) % q>> : s \in P})

polynomial_times_term(q, P, t) ==
    {<<[k \in DOMAIN t[1] |-> s[1][k] + t[1][k]], (s[2] * t[2]) % q>> : s \in P}

RECURSIVE polynomial_mul(_, _, _)
polynomial_mul(q, P, Q) ==
    IF Q = {} THEN {}
    ELSE LET t == CHOOSE s \in Q : TRUE
         IN  polynomial_add(q, polynomial_times_term(q, P, t),
                            polynomial_mul(q, P, Q \ {t}))

\* poly_ring.frobenius_endomorphism(), applied n times: P |-> P^(p^n); over
\* the prime field the coefficients are fixed and the exponents are
\* multiplied by p^n
Frob(q, P, n) ==
    {<<[k \in DOMAIN s[1] |-> s[1][k] * Power(q, n)], s[2]>> : s \in P}

\* An Ore polynomial is the tuple of its coefficients, the one of t^k at
\* index k + 1.
ore_coefficient(f, i) == IF i + 1 \in DOMAIN f THEN f[i + 1] ELSE {}

ore_add(q, f, g) ==
    [k \in 1..MaxOf({Len(f), Len(g)}) |->
        polynomial_add(q, ore_coefficient(f, k - 1), ore_coefficient(g, k - 1))]

ore_scale(q, c, f) == [k \in DOMAIN f |-> polynomial_scale(q, c, f[k])]

\* the coefficient of t^(k-1) in f * g: the sum over i' <= i of
\* f[i'] * Frob^(i'-1)(g[k + 1 - i'])
RECURSIVE ore_mul_coefficient(_, _, _, _, _)
ore_mul_coefficient(q, f, g, k, i) ==
    IF i = 0 THEN {}
    ELSE IF k + 1 - i \in DOMAIN g
    THEN polynomial_add(q, ore_mul_coefficient(q, f, g, k, i - 1),
                        polynomial_mul(q, f[i], Frob(q, g[k + 1 - i], i - 1)))
    ELSE ore_mul_coefficient(q, f, g, k, i - 1)

ore_mul(q, f, g) ==
    [k \in 1..(Len(f) + Len(g) - 1) |->
        ore_mul_coefficient(q, f, g, k, IF k < Len(f) THEN k ELSE Len(f))]

\* the monomial with the exponent e at the index j of 1..n
monomial(n, j, e) == {<<[k \in 1..n |-> IF k = j THEN e ELSE 0], 1>>}

RECURSIVE ore_power(_, _, _)
ore_power(q, f, idx) ==
    IF idx = 0 THEN <<monomial(Len(f), 1, 0)>>
    ELSE ore_mul(q, ore_power(q, f, idx - 1), f)

\* DrinfeldModularForms.__init__, with the default group and names
DrinfeldModularForms(q, rank_, has_type) ==
    [_has_type |-> has_type, _rank |-> rank_, _base_ring |-> q]

\* DrinfeldModularForms._generator_coefficient_form
_generator_coefficient_form(self, i) ==
    IF self._has_type /\ i = self._rank
    THEN monomial(self._rank + 1, i + 1, self._base_ring - 1)
    ELSE monomial(self._rank + 1, i + 1, 1)

\* form.subs({g: self._generator_coefficient_form(j + 1)}) on one term: the
\* generator forms are monomials, and so is the image of a monomial
subs_term(self, s) ==
    <<[k \in DOMAIN s[1] |->
         SumSeq([j \in DOMAIN s[1] |->
            IF j = 1 THEN (IF k = 1 THEN s[1][1] ELSE 0)
            ELSE s[1][j] * (CHOOSE g \in _generator_coefficient_form(self, j - 1) :
                              TRUE)[1][k]])],
      s[2]>>

subs(self, form) == {subs_term(self, s) : s \in form}

\* sum(c*(gen**idx) for idx, c in enumerate(a.coefficients(sparse=False))),
\* the terms from the index idx on
RECURSIVE sum_of_powers(_, _, _, _)
sum_of_powers(q, a, gen, idx) ==
    IF idx > degree(a) THEN <<>>
    ELSE ore_add(q, ore_scale(q, a[idx + 1], ore_power(q, gen, idx)),
                 sum_of_powers(q, a, gen, idx + 1))

coeff_forms_of(self, a, f) ==
    [i \in 1..(IF degree(a) * self._rank > 0 THEN degree(a) * self._rank ELSE 0) |->
        subs(self, ore_coefficient(f, i))]

\* DrinfeldModularForms._coefficient_forms
_coefficient_forms(self, a) ==
    LET n   == self._rank + 1
        gen == [k \in 1..n |-> monomial(n, k, 1)]
    IN  coeff_forms_of(self, a, sum_of_powers(self._base_ring, a, gen, 0))

\* coefficient_form with the last index deg(a)*rank left out of the range
coefficient_form_short_range(self, i, a) ==
    IF a = None
    THEN IF i < 1 \/ i > self._rank
         THEN Raise("ValueError", <<"index (=", i, ") must be >= 1 and <= rank (=",
                                    self._rank, ")">>)
         ELSE OK(_generator_coefficient_form(self, i))
    ELSE IF base_ring_call(a).raised = "TypeError"
    THEN Raise("TypeError", "a should be an element of the base ring")
    ELSE IF base_ring_call(a).value.denominator # <<1>>
    THEN Raise("ValueError", "a should be in the ring of regular functions")
    ELSE IF i < 1 \/ i >= degree(base_ring_call(a).value.numerator) * self._rank
    THEN Raise("ValueError",
               <<"index (=", i, ") must be >= 1 and <= deg(a)*rank (=",
                 degree(base_ring_call(a).value.numerator) * self._rank, ")">>)
    ELSE OK(_coefficient_forms(self, base_ring_call(a).value.numerator)[i])

\* DrinfeldModularForms.coefficient_form
coefficient_form(self, i, a) ==
    IF a = None
    THEN IF i < 1 \/ i > self._rank
         THEN Raise("ValueError", <<"index (=", i, ") must be >= 1 and <= rank (=",
                                    self._rank, ")">>)
         ELSE OK(_generator_coefficient_form(self, i))
    ELSE IF base_ring_call(a).raised = "TypeError"
    THEN Raise("TypeError", "a should be an element of the base ring")
    ELSE IF base_ring_call(a).value.denominator # <<1>>
    THEN Raise("ValueError", "a should be in the ring of regular functions")
    ELSE IF i < 1 \/ i > degree(base_ring_call(a).value.numerator) * self._rank
    THEN Raise("ValueError",
               <<"index (=", i, ") must be >= 1 and <= deg(a)*rank (=",
                 degree(base_ring_call(a).value.numerator) * self._rank, ")">>)
    ELSE OK(_coefficient_forms(self, base_ring_call(a).value.numerator)[i])

\* DrinfeldModularForms.coefficient_forms
coefficient_forms(self, a) ==
    IF a = None
    THEN OK([i \in 1..self._rank |-> _generator_coefficient_form(self, i)])
    ELSE IF base_ring_call(a).raised = "TypeError"
    THEN Raise("TypeError", "the input should be an element of the base ring")
    ELSE IF base_ring_call(a).value.denominator # <<1>>
    THEN Raise("ValueError",
               "the input should be in the ring of regular functions")
    ELSE OK(_coefficient_forms(self, base_ring_call(a).value.numerator))

\* --------------------------------------------------------------- calls
Primes == {2, 3}

\* the default names g1, ..., gr name one generator each from rank two on
MfRings ==
    {DrinfeldModularForms(q, r, has_type) :
        q \in Primes, r \in 2..MaxRank, has_type \in BOOLEAN}

\* the polynomials of GF(q)['T'] of degree at most d
PolynomialsUpTo(q, d) ==
    {a \in TuplesUpTo(0..(q - 1), d + 1) : a = <<>> \/ a[Len(a)] # 0}

MfArguments(q) ==
    {None, [kind |-> "symbolic"]}
    \cup {[kind |-> "fraction", numerator |-> n, denominator |-> d] :
            n \in PolynomialsUpTo(q, MaxDegree), d \in {<<1>>, <<0, 1>>}}

MfInit ==
    /\ \E M \in MfRings :
         \E i \in (-1)..(MaxDegree * MaxRank + 1), a \in MfArguments(M._base_ring) :
            mf_in = [op |-> "coefficient_form", self |-> M, i |-> i, a |-> a]
    /\ mf_out = Pending
    /\ FdIdle /\ CmIdle /\ GfIdle /\ DmIdle /\ ScIdle /\ EgIdle /\ PpIdle /\ FcIdle

Call_coefficient_form ==
    /\ mf_out = Pending
    /\ mf_in.op = "coefficient_form"
    /\ mf_out' = Returned(coefficient_form(mf_in.self, mf_in.i, mf_in.a))
    /\ UNCHANGED <<mf_in, fd_vars, cm_vars, gf_vars, dm_vars,
                   sc_vars, eg_vars, pp_vars,
                   fc_vars>>

MfNext == Call_coefficient_form

SpecModularForms == MfInit /\ [][MfNext]_vars

\* -------------------------------------------------------------- claims
MfCalled(op) == mf_in.op = op /\ mf_out.done

\* the product g * d in GF(q)['T']
TimesInA(q, g, d) ==
    IF g = <<>> \/ d = <<>> THEN <<>>
    ELSE [k \in 1..(Len(g) + Len(d) - 1) |->
            SumSeq([j \in 1..Len(g) |->
                IF k + 1 - j \in DOMAIN d THEN g[j] * d[k + 1 - j] ELSE 0]) % q]

\* the elements g of the ring of regular functions equal to the fraction a
RegularFunctions(q, a) ==
    {g \in PolynomialsUpTo(q, MaxDegree) :
        TimesInA(q, g, a.denominator) = a.numerator}

IsEntry(value, forms, i, n) ==
    /\ forms.raised = "None"
    /\ Len(forms.value) = n
    /\ value = forms.value[i]

\* the outcome the claim states for an index range 1..n
ValidatedIndex(self, i, a, ret, n) ==
    /\ ret.raised \in {"None", "ValueError"}
    /\ ret.raised = "ValueError" <=> (i < 1 \/ i > n)
    /\ ret.raised = "None" => IsEntry(ret.value, coefficient_forms(self, a), i, n)

\* C9: coefficient_form(i, a) validates its input before computing: with
\* a=None it raises ValueError exactly when i < 1 or i > rank; with a given it
\* raises TypeError when a cannot be converted to the base ring, ValueError
\* when the denominator of a is not 1, and ValueError exactly when i < 1 or
\* i > deg(a)*rank; in every other case it returns entry i-1 of
\* coefficient_forms(a), a list of exactly deg(a)*rank forms.
C9_CoefficientFormValidates ==
    MfCalled("coefficient_form") =>
        IF mf_in.a = None
        THEN ValidatedIndex(mf_in.self, mf_in.i, mf_in.a, mf_out.ret,
                            mf_in.self._rank)
        ELSE IF mf_in.a.kind # "fraction"
        THEN mf_out.ret.raised = "TypeError"
        ELSE IF RegularFunctions(mf_in.self._base_ring, mf_in.a) = {}
        THEN mf_out.ret.raised = "ValueError"
        ELSE \A g \in RegularFunctions(mf_in.self._base_ring, mf_in.a) :
                ValidatedIndex(mf_in.self, mf_in.i, mf_in.a, mf_out.ret,
                               degree(g) * mf_in.self._rank)

\* an index beyond the rank, for a of degree two: a form of several terms
C9_Witness ==
    /\ MfCalled("coefficient_form")
    /\ mf_in.a # None
    /\ mf_in.a.kind = "fraction"
    /\ mf_in.i > mf_in.self._rank
    /\ mf_out.ret.raised = "None"
    /\ Cardinality(mf_out.ret.value) > 1


\* =========================================================== Subcrystal
\* The ambient crystals are the crystals of words of a length over the
\* letters 1..n+1 of type A_n (the letters themselves for length 1), with
\* the tensor product rule: an element is the word of its letters. An
\* operator that is None on an element gives None.
Word(letters) == [letters |-> letters]

\* an optional argument that is given, a tuple
Given(items) == [kind |-> "tuple", items |-> items]
CrystalOfWords(n, length) == [cartan_type |-> <<"A", n>>, length |-> length]

crystal_elements(B) ==
    {Word(letters) : letters \in TuplesOver(1..(B.cartan_type[2] + 1), B.length)}

crystal_index_set(B) == [k \in 1..B.cartan_type[2] |-> k]

letter_phi(a, i) == IF a = i THEN 1 ELSE 0

letter_epsilon(a, i) == IF a = i + 1 THEN 1 ELSE 0

\* f_i(a (x) b) is f_i(a) (x) b when epsilon_i(a) >= phi_i(b), else
\* a (x) f_i(b)
crystal_f(v, i) ==
    IF Len(v.letters) = 1
    THEN (IF v.letters[1] = i THEN Word(<<i + 1>>) ELSE None)
    ELSE IF letter_epsilon(v.letters[1], i) >= letter_phi(v.letters[2], i)
    THEN (IF v.letters[1] = i THEN Word(<<i + 1, v.letters[2]>>) ELSE None)
    ELSE (IF v.letters[2] = i THEN Word(<<v.letters[1], i + 1>>) ELSE None)

\* e_i(a (x) b) is e_i(a) (x) b when epsilon_i(a) > phi_i(b), else
\* a (x) e_i(b)
crystal_e(v, i) ==
    IF Len(v.letters) = 1
    THEN (IF v.letters[1] = i + 1 THEN Word(<<i>>) ELSE None)
    ELSE IF letter_epsilon(v.letters[1], i) > letter_phi(v.letters[2], i)
    THEN (IF v.letters[1] = i + 1 THEN Word(<<i, v.letters[2]>>) ELSE None)
    ELSE (IF v.letters[2] = i + 1 THEN Word(<<v.letters[1], i>>) ELSE None)

\* the number of times f_i (e_i) applies
RECURSIVE crystal_phi(_, _)
crystal_phi(v, i) ==
    IF crystal_f(v, i) = None THEN 0 ELSE 1 + crystal_phi(crystal_f(v, i), i)

RECURSIVE crystal_epsilon(_, _)
crystal_epsilon(v, i) ==
    IF crystal_e(v, i) = None THEN 0 ELSE 1 + crystal_epsilon(crystal_e(v, i), i)

\* the weight of a word: how often each letter occurs
crystal_weight(B, v) ==
    [a \in 1..(B.cartan_type[2] + 1) |-> Cardinality({k \in DOMAIN v.letters : v.letters[k] = a})]

\* ambient.module_generators: the highest weight elements
crystal_module_generators(B) ==
    SetToSeq({v \in crystal_elements(B) :
                \A i \in 1..B.cartan_type[2] : crystal_e(v, i) = None})

\* the contained argument: None, a set, or a function, given by the set of
\* the elements it is true on
ContainedSet(elements) == [kind |-> "frozenset", elements |-> elements]

ContainedFunction(true_on) == [kind |-> "function", true_on |-> true_on]

\* Subcrystal.__classcall_private__ and __init__; a generator is kept as the
\* ambient element that self(...) wraps
Subcrystal(ambient, contained, generators, index_set) ==
    [_ambient |-> ambient,
     _contained |-> contained,
     _cardinality |-> IF contained.kind = "frozenset"
                      THEN Cardinality(contained.elements) ELSE None,
     _cartan_type |-> ambient.cartan_type,
     _index_set |-> IF index_set = None THEN crystal_index_set(ambient)
                    ELSE index_set.items,
     module_generators |-> IF generators = None
                           THEN crystal_module_generators(ambient)
                           ELSE generators.items,
     _list |-> IF contained.kind = "frozenset" THEN contained.elements
               ELSE None]

\* self.element_class(self, x)
element_class(self, x) == [parent |-> self, value |-> x]

\* Subcrystal._containing
_containing(self, x) ==
    IF self._contained = None THEN TRUE
    ELSE IF self._contained.kind = "frozenset" THEN x \in self._contained.elements
    ELSE x \in self._contained.true_on

\* Subcrystal.Element.e
Element_e(self, i) ==
    IF crystal_e(self.value, i) = None
       \/ ~_containing(self.parent, crystal_e(self.value, i))
    THEN None
    ELSE element_class(self.parent, crystal_e(self.value, i))

\* mutant of Element_f: the result is not tested for containment
Element_f_unchecked(self, i) ==
    IF crystal_f(self.value, i) = None
    THEN None
    ELSE element_class(self.parent, crystal_f(self.value, i))

\* Subcrystal.Element.f
Element_f(self, i) ==
    IF crystal_f(self.value, i) = None
       \/ ~_containing(self.parent, crystal_f(self.value, i))
    THEN None
    ELSE element_class(self.parent, crystal_f(self.value, i))

\* Subcrystal.Element.epsilon
Element_epsilon(self, i) == crystal_epsilon(self.value, i)

\* Subcrystal.Element.phi
Element_phi(self, i) == crystal_phi(self.value, i)

\* Subcrystal.Element.weight
Element_weight(self) == crystal_weight(self.parent._ambient, self.value)

\* the elements that the operators of the index set lead to from a set of
\* elements
successors(self, elements) ==
    {y \in UNION {{Element_e(x, self._index_set[k]), Element_f(x, self._index_set[k])} :
                    x \in elements, k \in DOMAIN self._index_set} :
        y # None}

RECURSIVE enumerate_from(_, _)
enumerate_from(self, elements) ==
    IF successors(self, elements) \subseteq elements THEN elements
    ELSE enumerate_from(self, elements \cup successors(self, elements))

\* self.list(), as a set: the enumeration of a finite crystal, which starts
\* at module_generators and follows e_i and f_i for i in the index set
list(self) ==
    enumerate_from(self, {element_class(self, self.module_generators[k]) :
                            k \in DOMAIN self.module_generators})

\* mutant of __contains__: the containment predicate is not asked
contains_unchecked(self, x) ==
    IF x.parent = self THEN TRUE
    ELSE element_class(self, x.value) \in list(self)

\* Subcrystal.__contains__, for x an element of self or of its ambient
\* crystal and self a finite crystal
__contains__(self, x) ==
    IF x.parent = self THEN TRUE
    ELSE IF ~_containing(self, x.value) THEN FALSE
    ELSE element_class(self, x.value) \in list(self)


\* --------------------------------------------------------------- calls
ScCrystals == {CrystalOfWords(1, 1), CrystalOfWords(2, 1), CrystalOfWords(2, 2)}

\* the sets of elements that contained is given by
ScSubsets(B) ==
    IF B.length = 1 THEN SUBSET crystal_elements(B)
    ELSE {{}, {Word(<<1, 1>>), Word(<<2, 1>>), Word(<<1, 3>>)}}
         \cup {{v \in crystal_elements(B) : v.letters[1] <= a} : a \in 1..2}
         \cup {{v \in crystal_elements(B) : v.letters[1] # v.letters[2]}}

ScContained(B) ==
    {None} \cup {ContainedSet(E) : E \in ScSubsets(B)}
           \cup {ContainedFunction(E) : E \in ScSubsets(B)}

ScGenerators(B) ==
    {None, Given(<<>>)}
    \cup {Given(<<v>>) : v \in IF B.length = 1 THEN crystal_elements(B)
                               ELSE {Word(<<1, 1>>), Word(<<2, 1>>), Word(<<3, 2>>)}}

ScIndexSets(B) == {None} \cup {Given(<<i>>) : i \in 1..B.cartan_type[2]}

ScSubcrystals ==
    UNION {{Subcrystal(B, contained, generators, index_set) :
              contained \in ScContained(B), generators \in ScGenerators(B),
              index_set \in ScIndexSets(B)} : B \in ScCrystals}

ScInit ==
    /\ \E S \in ScSubcrystals :
         \E v \in crystal_elements(S._ambient), i \in 1..S._ambient.cartan_type[2] :
            \/ \E parent \in {S, S._ambient} :
                 sc_in = [op |-> "__contains__", self |-> S,
                          x |-> [parent |-> parent, value |-> v]]
            \/ \E op \in {"e", "f", "epsilon", "phi"} :
                 sc_in = [op |-> op, self |-> element_class(S, v), i |-> i]
            \/ sc_in = [op |-> "weight", self |-> element_class(S, v)]
    /\ sc_out = Pending
    /\ FdIdle /\ CmIdle /\ GfIdle /\ DmIdle /\ MfIdle /\ EgIdle /\ PpIdle /\ FcIdle

ScReturn(op, ret) ==
    /\ sc_out = Pending
    /\ sc_in.op = op
    /\ sc_out' = Returned(ret)
    /\ UNCHANGED <<sc_in, fd_vars, cm_vars, gf_vars, dm_vars, mf_vars,
                   eg_vars, pp_vars,
                   fc_vars>>

Call___contains__ == ScReturn("__contains__", __contains__(sc_in.self, sc_in.x))

Call_Element_e == ScReturn("e", Element_e(sc_in.self, sc_in.i))

Call_Element_f == ScReturn("f", Element_f(sc_in.self, sc_in.i))

Call_Element_epsilon == ScReturn("epsilon", Element_epsilon(sc_in.self, sc_in.i))

Call_Element_phi == ScReturn("phi", Element_phi(sc_in.self, sc_in.i))

Call_Element_weight == ScReturn("weight", Element_weight(sc_in.self))

ScNext ==
    \/ Call___contains__
    \/ Call_Element_e
    \/ Call_Element_f
    \/ Call_Element_epsilon
    \/ Call_Element_phi
    \/ Call_Element_weight

SpecSubcrystal == ScInit /\ [][ScNext]_vars

\* -------------------------------------------------------------- claims
ScCalled(op) == sc_in.op = op /\ sc_out.done

\* the containment predicate of S at an ambient element
Satisfies(S, v) ==
    \/ S._contained = None
    \/ S._contained.kind = "frozenset" /\ v \in S._contained.elements
    \/ S._contained.kind = "function" /\ v \in S._contained.true_on

\* the ambient elements reached from the generators of S in at most n steps
\* of e_i or f_i, i in the index set of S, that stay within the predicate
RECURSIVE ReachedWithin(_, _)
ReachedWithin(S, n) ==
    IF n = 0 THEN Range(S.module_generators)
    ELSE LET R == ReachedWithin(S, n - 1)
         IN  R \cup {w \in crystal_elements(S._ambient) :
                       /\ Satisfies(S, w)
                       /\ \E u \in R, i \in Range(S._index_set) :
                             w = crystal_e(u, i) \/ w = crystal_f(u, i)}

Reachable(S, v) ==
    v \in ReachedWithin(S, Cardinality(crystal_elements(S._ambient)))

C13_Reached ==
    /\ ScCalled("__contains__")
    /\ sc_in.x.parent = sc_in.self._ambient
    /\ sc_in.x.value \notin ReachedWithin(sc_in.self, 1)
    /\ sc_out.ret = TRUE

\* what e (op = "e") or f of x has to return when the ambient operator gives a
ExpectedOperator(x, a, ret) ==
    IF a = None \/ ~Satisfies(x.parent, a) THEN ret = None
    ELSE /\ ret.parent = x.parent
         /\ ret.value = a

\* C14: for an element x of a Subcrystal S and an index i, x.e(i) (x.f(i))
\* is None exactly when the ambient e_i (f_i) of x.value is None or does not
\* satisfy the containment predicate of S, else it is the element of S that
\* wraps the ambient result; epsilon, phi and weight of x are those of
\* x.value
C14_Operators ==
    /\ ScCalled("e") =>
          ExpectedOperator(sc_in.self, crystal_e(sc_in.self.value, sc_in.i), sc_out.ret)
    /\ ScCalled("f") =>
          ExpectedOperator(sc_in.self, crystal_f(sc_in.self.value, sc_in.i), sc_out.ret)
    /\ ScCalled("epsilon") => sc_out.ret = crystal_epsilon(sc_in.self.value, sc_in.i)
    /\ ScCalled("phi") => sc_out.ret = crystal_phi(sc_in.self.value, sc_in.i)
    /\ ScCalled("weight") =>
          sc_out.ret = crystal_weight(sc_in.self.parent._ambient, sc_in.self.value)

\* f_i of x exists in the ambient crystal and is outside S: x.f(i) is None
C14_Witness ==
    /\ ScCalled("f")
    /\ crystal_f(sc_in.self.value, sc_in.i) # None
    /\ ~Satisfies(sc_in.self.parent, crystal_f(sc_in.self.value, sc_in.i))
    /\ sc_out.ret = None


\* ======================================================= EuclideanGroup
\* The group of degree n over GF(p), p a prime, is [degree |-> n,
\* base_ring |-> p]. A matrix is the tuple of its rows, an entry is a
\* residue 0..p-1, and an element of the group is [A |-> matrix, b |-> vector].
EuclideanGroup(degree_, ring) == [degree |-> degree_, base_ring |-> ring]

vector_space(self) == [1..self.degree -> 0..(self.base_ring - 1)]

matrix_space(self) == [1..self.degree -> vector_space(self)]

matrix_one(self) ==
    [r \in 1..self.degree |-> [c \in 1..self.degree |-> IF r = c THEN 1 ELSE 0]]

matrix_times(self, A, B) ==
    [r \in 1..self.degree |-> [c \in 1..self.degree |->
        SumSeq([k \in 1..self.degree |-> A[r][k] * B[k][c]]) % self.base_ring]]

matrix_times_vector(self, A, v) ==
    [r \in 1..self.degree |->
        SumSeq([k \in 1..self.degree |-> A[r][k] * v[k]]) % self.base_ring]

transpose(self, A) == [r \in 1..self.degree |-> [c \in 1..self.degree |-> A[c][r]]]

\* A.is_unitary(): A times its conjugate transpose is the identity; the
\* conjugation of a prime field is the identity
is_unitary(self, A) == matrix_times(self, A, transpose(self, A)) = matrix_one(self)

\* mutant of _element_constructor_check: a matrix of determinant +-1 passes
\* (degree at most two)
_element_constructor_check_det(self, A, b) ==
    IF (det(A) % self.base_ring) \notin {1, self.base_ring - 1}
    THEN Raise("TypeError", "A must be orthogonal (unitary)")
    ELSE OK(None)

\* EuclideanGroup._element_constructor_check
_element_constructor_check(self, A, b) ==
    IF ~is_unitary(self, A)
    THEN Raise("TypeError", "A must be orthogonal (unitary)")
    ELSE OK(None)

\* the element constructor of the affine group, self(A, b): the check, then
\* the element x |-> A x + b
element_constructor(self, A, b) ==
    IF _element_constructor_check(self, A, b).raised # "None"
    THEN _element_constructor_check(self, A, b)
    ELSE OK([A |-> A, b |-> b])

\* the inverse of a nonzero residue
inverse_mod(p, x) == CHOOSE y \in 1..(p - 1) : (x * y) % p = 1

\* self.reflection(v): x |-> x - 2 <v, x> / <v, v> v, a ValueError when v has
\* norm zero
reflection(self, v) ==
    LET norm == SumSeq([k \in 1..self.degree |-> v[k] * v[k]]) % self.base_ring
    IN  IF norm = 0 THEN Raise("ValueError", "v has norm zero")
        ELSE element_constructor(
                 self,
                 [r \in 1..self.degree |-> [c \in 1..self.degree |->
                     ((IF r = c THEN 1 ELSE 0)
                      - 2 * inverse_mod(self.base_ring, norm) * v[r] * v[c])
                     % self.base_ring]],
                 [k \in 1..self.degree |-> 0])

\* self.translation(b): x |-> x + b, built without the check
translation(self, b) == [A |-> matrix_one(self), b |-> b]

\* the product g * h: x |-> g.A (h.A x + h.b) + g.b, built without the check
group_mul(self, g, h) ==
    [A |-> matrix_times(self, g.A, h.A),
     b |-> [k \in 1..self.degree |->
              (matrix_times_vector(self, g.A, h.b)[k] + g.b[k]) % self.base_ring]]

\* EuclideanGroup.random_element, for the random vectors v (of the last
\* turn of the loop, the first whose reflection exists) and w
random_element(self, v, w) ==
    OK(group_mul(self, reflection(self, v).value, translation(self, w)))


\* --------------------------------------------------------------- calls
EgGroups ==
    {EuclideanGroup(1, 2), EuclideanGroup(1, 3), EuclideanGroup(1, 5),
     EuclideanGroup(2, 2), EuclideanGroup(2, 3)}

\* the elements a caller holds: those the element constructor accepts
EgElements(G) ==
    {[A |-> A, b |-> b] : A \in {A \in matrix_space(G) : is_unitary(G, A)},
                          b \in vector_space(G)}

EgInit ==
    /\ \E G \in EgGroups :
         \/ \E op \in {"_element_constructor_check", "__call__"} :
              \E A \in matrix_space(G), b \in vector_space(G) :
                 eg_in = [op |-> op, self |-> G, A |-> A, b |-> b]
         \/ eg_in = [op |-> "random_element", self |-> G]
         \/ \E g \in EgElements(G), h \in EgElements(G) :
              eg_in = [op |-> "__mul__", self |-> G, g |-> g, h |-> h]
    /\ eg_out = Pending
    /\ FdIdle /\ CmIdle /\ GfIdle /\ DmIdle /\ MfIdle /\ ScIdle /\ PpIdle /\ FcIdle

EgReturn(op, ret) ==
    /\ eg_out = Pending
    /\ eg_in.op = op
    /\ eg_out' = Returned(ret)
    /\ UNCHANGED <<eg_in, fd_vars, cm_vars, gf_vars, dm_vars, mf_vars,
                   sc_vars, pp_vars,
                   fc_vars>>

Call__element_constructor_check ==
    EgReturn("_element_constructor_check",
             _element_constructor_check(eg_in.self, eg_in.A, eg_in.b))

Call_element_constructor ==
    EgReturn("__call__", element_constructor(eg_in.self, eg_in.A, eg_in.b))

\* the loop ends with the first v whose reflection exists
Call_random_element ==
    \E v \in vector_space(eg_in.self), w \in vector_space(eg_in.self) :
        /\ eg_in.op = "random_element"
        /\ reflection(eg_in.self, v).raised = "None"
        /\ EgReturn("random_element", random_element(eg_in.self, v, w))

Call_group_mul ==
    EgReturn("__mul__", OK(group_mul(eg_in.self, eg_in.g, eg_in.h)))

EgNext ==
    \/ Call__element_constructor_check
    \/ Call_element_constructor
    \/ Call_random_element
    \/ Call_group_mul

SpecEuclideanGroup == EgInit /\ [][EgNext]_vars

\* -------------------------------------------------------------- claims
EgCalled(op) == eg_in.op = op /\ eg_out.done

\* the columns of A are orthonormal
Orthogonal(G, A) ==
    \A i \in 1..G.degree, j \in 1..G.degree :
        SumSeq([k \in 1..G.degree |-> A[k][i] * A[k][j]]) % G.base_ring
            = (IF i = j THEN 1 ELSE 0)

NotOrthogonalError(ret) ==
    /\ ret.raised = "TypeError"
    /\ ret.msg = "A must be orthogonal (unitary)"

\* C15: the element-constructor check raises TypeError('A must be
\* orthogonal (unitary)') for every A that is not unitary and accepts every
\* unitary A with any b, so the elements made by the constructor, by
\* random_element() and by products have a unitary linear part
C15_Unitary ==
    /\ EgCalled("_element_constructor_check") =>
          IF Orthogonal(eg_in.self, eg_in.A) THEN eg_out.ret = OK(None)
          ELSE NotOrthogonalError(eg_out.ret)
    /\ EgCalled("__call__") =>
          IF Orthogonal(eg_in.self, eg_in.A)
          THEN eg_out.ret = OK([A |-> eg_in.A, b |-> eg_in.b])
          ELSE NotOrthogonalError(eg_out.ret)
    /\ (EgCalled("random_element") \/ EgCalled("__mul__")) =>
          /\ eg_out.ret.raised = "None"
          /\ Orthogonal(eg_in.self, eg_out.ret.value.A)

\* a random element of degree two over GF(3) that is a proper reflection
\* followed by a translation
C15_Witness ==
    /\ EgCalled("random_element")
    /\ eg_in.self = EuclideanGroup(2, 3)
    /\ eg_out.ret.value.A \notin {matrix_one(eg_in.self)}
    /\ eg_out.ret.value.b # <<0, 0>>

\* the constructor refused a matrix of determinant one
C15_Refused ==
    /\ EgCalled("__call__")
    /\ eg_in.self.degree = 2
    /\ det(eg_in.A) % eg_in.self.base_ring = 1
    /\ NotOrthogonalError(eg_out.ret)


\* ------------------------------------------------------------------
\* DrinfeldModularForms.__classcall_private__ (names)
\* ------------------------------------------------------------------
\* a string is the sequence of its characters
Str(chars) == [kind |-> "str", chars |-> chars]

Digits == <<"1", "2", "3", "4", "5", "6", "7", "8", "9">>

\* str.split() without argument: the maximal runs of non-blank characters
RECURSIVE split_from(_, _, _)
split_from(chars, k, word) ==
    IF k > Len(chars)
    THEN IF word = <<>> THEN <<>> ELSE <<word>>
    ELSE IF chars[k] = " "
         THEN (IF word = <<>> THEN <<>> ELSE <<word>>)
              \o split_from(chars, k + 1, <<>>)
         ELSE split_from(chars, k + 1, Append(word, chars[k]))

split(chars) == split_from(chars, 1, <<>>)

\* names = f"g1, "; for i in range(2, rank, 1): names += f"g{i}, "
RECURSIVE default_names_loop(_, _, _)
default_names_loop(names, i, rank_) ==
    IF i >= rank_ THEN names
    ELSE default_names_loop(names \o <<"g", Digits[i], ",", " ">>, i + 1, rank_)

default_names(rank_, has_type) ==
    default_names_loop(<<"g", "1", ",", " ">>, 2, rank_)
        \o <<(IF has_type THEN "h" ELSE "g"), Digits[rank_]>>

\* DrinfeldModularForms.__classcall_private__, called with a base ring
\* Frac(GF(q)['T']) and group=None
__classcall_private__(q, rank_, has_type, names) ==
    IF names = None
    THEN OK([ring |-> DrinfeldModularForms(q, rank_, has_type),
             names |-> Str(default_names(rank_, has_type))])
    ELSE IF names.kind = "str"
    THEN LET nb_names == Len(split(names.chars))
         IN  IF nb_names # rank_
             THEN Raise("ValueError",
                        [text |-> "the number of generators must be equal to the rank",
                         rank |-> rank_])
             ELSE OK([ring |-> DrinfeldModularForms(q, rank_, has_type),
                      names |-> names])
    ELSE Raise("TypeError", "names must be None or a comma seperated string")

\* --------------------------------------------------------------- calls
MaxNameLen == 4

NameCharacters == {"f", ",", " "}

MfNames ==
    {None, [kind |-> "int", value |-> 1]}
    \cup {Str(chars) : chars \in TuplesUpTo(NameCharacters, MaxNameLen)}

MfNamesInit ==
    /\ \E q \in Primes, rank_ \in 1..MaxRank, has_type \in BOOLEAN :
         \E names \in MfNames :
            mf_in = [op |-> "__classcall_private__", base_ring |-> q,
                     rank |-> rank_, has_type |-> has_type, names |-> names]
    /\ mf_out = Pending
    /\ FdIdle /\ CmIdle /\ GfIdle /\ DmIdle /\ ScIdle /\ EgIdle /\ PpIdle /\ FcIdle

Call___classcall_private__ ==
    /\ mf_out = Pending
    /\ mf_in.op = "__classcall_private__"
    /\ mf_out' = Returned(__classcall_private__(mf_in.base_ring, mf_in.rank,
                                                mf_in.has_type, mf_in.names))
    /\ UNCHANGED <<mf_in, fd_vars, cm_vars, gf_vars, dm_vars,
                   sc_vars, eg_vars, pp_vars,
                   fc_vars>>

MfNamesNext == Call___classcall_private__

SpecModularFormsNames == MfNamesInit /\ [][MfNamesNext]_vars

\* -------------------------------------------------------------- claims
\* the pieces of a string between its commas
RECURSIVE CommaPieces(_, _, _)
CommaPieces(chars, k, piece) ==
    IF k > Len(chars) THEN <<piece>>
    ELSE IF chars[k] = ","
         THEN <<piece>> \o CommaPieces(chars, k + 1, <<>>)
         ELSE CommaPieces(chars, k + 1, Append(piece, chars[k]))

\* a generator name, blanks around it allowed: one run of letters
IsName(piece) ==
    /\ \E k \in 1..Len(piece) : piece[k] # " "
    /\ \A j \in 1..Len(piece), k \in 1..Len(piece), l \in 1..Len(piece) :
          (j < k /\ k < l /\ piece[j] # " " /\ piece[l] # " ") => piece[k] # " "

\* the string lists comma-separated generator names
ListsNames(chars) ==
    LET pieces == CommaPieces(chars, 1, <<>>)
    IN  \A k \in 1..Len(pieces) : IsName(pieces[k])

NumberOfNames(chars) == Len(CommaPieces(chars, 1, <<>>))

WrongNumberError(ret) ==
    /\ ret.raised = "ValueError"
    /\ ret.msg.text = "the number of generators must be equal to the rank"

\* C16: with names a string of comma-separated generator names, the
\* construction raises ValueError('the number of generators must be equal to
\* the rank') exactly when the number of names differs from the rank and
\* accepts the names otherwise; names that are neither None nor a string
\* raise TypeError
C16_NamesValidation ==
    MfCalled("__classcall_private__") =>
        /\ (mf_in.names # None /\ mf_in.names.kind = "str"
                /\ ListsNames(mf_in.names.chars)) =>
              IF NumberOfNames(mf_in.names.chars) # mf_in.rank
              THEN WrongNumberError(mf_out.ret)
              ELSE mf_out.ret.raised = "None"
        /\ (mf_in.names # None /\ mf_in.names.kind # "str") =>
              mf_out.ret.raised = "TypeError"

\* what the construction counts is the blank-separated words of the string
C16_BlankSeparated ==
    MfCalled("__classcall_private__") =>
        /\ (mf_in.names # None /\ mf_in.names.kind = "str") =>
              IF Len(split(mf_in.names.chars)) # mf_in.rank
              THEN WrongNumberError(mf_out.ret)
              ELSE mf_out.ret.raised = "None"
        /\ (mf_in.names # None /\ mf_in.names.kind # "str") =>
              mf_out.ret.raised = "TypeError"

\* two names separated by a comma alone are refused in rank two
C16_CommaAloneRefused ==
    /\ MfCalled("__classcall_private__")
    /\ mf_in.rank = 2
    /\ mf_in.names = Str(<<"f", ",", "f">>)
    /\ WrongNumberError(mf_out.ret)


\* ------------------------------------------------------------------
\* prepare_inequalities
\* ------------------------------------------------------------------
\* An inequality is the tuple coeffs of the source: coeffs[1] is the constant
\* (coeffs[0] there) and coeffs[u + 1] the coefficient of b_u, u = 1..dim-1
\* counting the variables as "i+1" does.  A Laurent monomial of B is the
\* tuple of its exponents.
ones_of(coeffs) == {u \in 1..(Len(coeffs) - 1) : coeffs[u + 1] = 1}

mones_of(coeffs) == {u \in 1..(Len(coeffs) - 1) : coeffs[u + 1] = -1}

absgetwo_of(coeffs) == {u \in 1..(Len(coeffs) - 1) : Abs(coeffs[u + 1]) >= 2}

\* chain_links[(m, o)] = constant
chain_links_set(chain_links, edge, constant) ==
    [e \in DOMAIN chain_links \cup {edge} |->
        IF e = edge THEN constant ELSE chain_links[e]]

\* "for coeffs in inequalities": the inequalities kept and the chain links
RECURSIVE prepare_inequalities_filter(_, _, _)
prepare_inequalities_filter(inequalities, filtered, chain_links) ==
    IF inequalities = <<>>
    THEN [inequalities_filtered |-> filtered, chain_links |-> chain_links]
    ELSE LET coeffs == Head(inequalities)
             rest == Tail(inequalities)
             ones == ones_of(coeffs)
             mones == mones_of(coeffs)
             absgetwo == absgetwo_of(coeffs)
         IN  IF \A k \in DOMAIN coeffs : coeffs[k] >= 0
             THEN prepare_inequalities_filter(rest, filtered, chain_links)
             ELSE IF Cardinality(ones) = 1 /\ mones = {} /\ absgetwo = {}
             THEN IF coeffs[1] < 0
                  THEN prepare_inequalities_filter(
                           rest, Append(filtered, coeffs), chain_links)
                  ELSE prepare_inequalities_filter(rest, filtered, chain_links)
             ELSE IF Cardinality(ones) = 1 /\ Cardinality(mones) = 1
                     /\ absgetwo = {}
             THEN prepare_inequalities_filter(
                      rest, filtered,
                      chain_links_set(chain_links,
                                      <<CHOOSE m \in mones : TRUE,
                                        CHOOSE o \in ones : TRUE>>,
                                      coeffs[1]))
             ELSE prepare_inequalities_filter(
                      rest, Append(filtered, coeffs), chain_links)

\* DiGraph(chain_links, format='list_of_edges'): its vertices
DiGraph_vertices(edges) == {e[1] : e \in edges} \cup {e[2] : e \in edges}

\* G.neighbor_in_iterator(v), in increasing order
neighbors_in(edges, v) == SortedSeq({e[1] : e \in {f \in edges : f[2] = v}})

\* G.topological_sort(): a vertex comes after the vertices with an edge to
\* it; <<>> on the vertices of a cycle
RECURSIVE topological_sort(_, _)
topological_sort(vertices, edges) ==
    LET sources == {v \in vertices :
                       \A e \in edges : e[2] = v => e[1] \notin vertices}
    IN  IF sources = {} THEN <<>>
        ELSE LET v == CHOOSE v \in sources : \A w \in sources : v <= w
             IN  <<v>> \o topological_sort(vertices \ {v}, edges)

is_acyclic(edges) ==
    Len(topological_sort(DiGraph_vertices(edges), edges))
        = Cardinality(DiGraph_vertices(edges))

\* sorted(..., key=lambda k: k[1]) of the pairs (n, p): stable
RECURSIVE sorted_by_p(_)
sorted_by_p(NP) ==
    IF NP = <<>> THEN <<>>
    ELSE LET k == CHOOSE k \in DOMAIN NP :
                     /\ \A j \in DOMAIN NP : NP[k][2] <= NP[j][2]
                     /\ \A j \in 1..(k - 1) : NP[j][2] > NP[k][2]
         IN  <<NP[k]>> \o sorted_by_p([j \in 1..(Len(NP) - 1) |->
                                          IF j < k THEN NP[j] ELSE NP[j + 1]])

\* len(tuple(takewhile(lambda u: u[0] == u[1], zip(p, q))))
RECURSIVE common_prefix(_, _)
common_prefix(p, q) ==
    IF p = <<>> \/ q = <<>> THEN 0
    ELSE IF Head(p) # Head(q) THEN 0
    ELSE 1 + common_prefix(Tail(p), Tail(q))

\* the inequality the loop "for n, p in NP" appends for one pair (n, p)
inequality_extra(dim, path_n, path_v, p, potential_v) ==
    LET ell == common_prefix(path_n, path_v)
    IN  [k \in 1..dim |->
            IF k = 1 THEN p - potential_v
            ELSE IF \E j \in (ell + 1)..Len(path_n) : path_n[j] = k - 1 THEN -1
            ELSE IF \E j \in (ell + 1)..Len(path_v) : path_v[j] = k - 1 THEN 1
            ELSE 0]

\* D[(0, v)] = -p and D[(u, v)] = 1 for u in paths[v]
D_set_column(D, v, p, path_v) ==
    [r \in DOMAIN D |->
        [c \in DOMAIN D[r] |->
            IF c # v THEN D[r][c]
            ELSE IF \E j \in DOMAIN path_v : path_v[j] = r THEN 1
            ELSE IF r = 0 THEN -p
            ELSE D[r][c]]]

\* "for v in G.topological_sort()"
RECURSIVE prepare_inequalities_chain(_, _, _, _)
prepare_inequalities_chain(dim, chain_links, todo, acc) ==
    IF todo = <<>> THEN acc
    ELSE LET v == Head(todo)
             ns == neighbors_in(DOMAIN chain_links, v)
             NP == sorted_by_p([k \in DOMAIN ns |->
                      <<ns[k], acc.potential[ns[k]] + chain_links[<<ns[k], v>>]>>])
             p == IF NP = <<>> THEN 0 ELSE NP[1][2]
             path_v == (IF NP = <<>> THEN <<>> ELSE acc.paths[NP[1][1]]) \o <<v>>
         IN  prepare_inequalities_chain(
                 dim, chain_links, Tail(todo),
                 [potential |-> [u \in DOMAIN acc.potential \cup {v} |->
                                    IF u = v THEN p ELSE acc.potential[u]],
                  paths |-> [u \in DOMAIN acc.paths \cup {v} |->
                                    IF u = v THEN path_v ELSE acc.paths[u]],
                  D |-> D_set_column(acc.D, v, p, path_v),
                  inequalities_extra |->
                      IF Len(NP) <= 1 THEN acc.inequalities_extra
                      ELSE acc.inequalities_extra \o
                           [k \in 1..(Len(NP) - 1) |->
                               inequality_extra(dim, acc.paths[NP[k + 1][1]],
                                                path_v, NP[k + 1][2], p)]])

\* tuple(T*vector(ieq))
T_times(T, ieq) ==
    [k \in DOMAIN ieq |->
        SumSeq([j \in DOMAIN ieq |-> T[k - 1][j - 1] * ieq[j]])]

\* tuple(row[1:]) of a row of T
row_exponents(T, r, dim) == [k \in 1..(dim - 1) |-> T[r][k]]

\* the end of prepare_inequalities, from T on
prepare_inequalities_with(dim, filtered, chain) ==
    OK([inequalities |->
            [k \in DOMAIN filtered |-> T_times(chain.D, filtered[k])]
            \o chain.inequalities_extra,
        factor |-> row_exponents(chain.D, 0, dim),
        rules |-> [u \in 1..(dim - 1) |-> row_exponents(chain.D, u, dim)]])

prepare_inequalities(inequalities) ==
    IF inequalities = <<>>
    THEN Raise("UnboundLocalError",
               "local variable 'dim' referenced before assignment")
    ELSE LET dim == Len(inequalities[Len(inequalities)])
             split_off == prepare_inequalities_filter(
                              inequalities, <<>>, [e \in {} |-> 0])
             edges == DOMAIN split_off.chain_links
         IN  IF ~is_acyclic(edges)
             THEN Raise("TypeError", "digraph is not acyclic")
             ELSE prepare_inequalities_with(
                      dim, split_off.inequalities_filtered,
                      prepare_inequalities_chain(
                          dim, split_off.chain_links,
                          topological_sort(DiGraph_vertices(edges), edges),
                          [potential |-> [u \in {} |-> 0],
                           paths |-> [u \in {} |-> <<>>],
                           D |-> [r \in 0..(dim - 1) |->
                                    [c \in 0..(dim - 1) |->
                                        IF r = c THEN 1 ELSE 0]],
                           inequalities_extra |-> <<>>]))


\* ------------------------------------------------------------------
\* prepare_mod
\* ------------------------------------------------------------------
\* a Python list; a tuple is a sequence
List(items) == [list |-> items]

\* mod is a dict {i: (m_i, r_i)}: a function on the indices i it holds
\* D = {(i, i): 1 ...}; D[(i+1, i+1)] = mr[0]; D[(i+1, 0)] = mr[1]
prepare_mod_T(mod, n) ==
    [r \in 0..(n - 1) |->
        [c \in 0..(n - 1) |->
            IF r >= 1 /\ (r - 1) \in DOMAIN mod /\ c = r THEN mod[r - 1][1]
            ELSE IF r >= 1 /\ (r - 1) \in DOMAIN mod /\ c = 0 THEN mod[r - 1][2]
            ELSE IF r = c THEN 1 ELSE 0]]

\* tuple(row[1:]) of a column of T
column_exponents(T, c, n) == [k \in 1..(n - 1) |-> T[k][c]]

\* mutant of vector_times_T: T*vector(e)
T_times_vector(e, T) ==
    [k \in DOMAIN e |-> SumSeq([j \in DOMAIN e |-> T[k - 1][j - 1] * e[j]])]

\* tuple(vector(e)*T)
vector_times_T(e, T) ==
    [k \in DOMAIN e |-> SumSeq([j \in DOMAIN e |-> e[j] * T[j - 1][k - 1]])]

\* prepare_mod(mod, B, *vecs), B with gens generators
prepare_mod(mod, gens, vecs) ==
    IF DOMAIN mod = {}
    THEN [factor |-> 1, rules |-> <<>>, vecs |-> vecs]
    ELSE LET n == gens + 1
             T == prepare_mod_T(mod, n)
         IN  [factor |-> column_exponents(T, 0, n),
              rules |-> [u \in 1..gens |-> column_exponents(T, u, n)],
              vecs |-> [k \in DOMAIN vecs |->
                          [j \in DOMAIN vecs[k].list |->
                              vector_times_T(vecs[k].list[j], T)]]]

\* --------------------------------------------------------------- calls
\* the constants of the inequalities lie in -MaxConstant..MaxConstant
MaxConstant == 1
\* the points looked at have coordinates 0..MaxPoint
MaxPoint == 2

\* B = LaurentPolynomialRing(ZZ, 'y', 3)
PpGens == 3

PpConstants == (-MaxConstant)..MaxConstant

PpInequalities(coefficients) ==
    {<<c>> \o v : c \in PpConstants, v \in TuplesOver(coefficients, PpGens)}

\* -b_m + b_o + c >= 0
PpChainLinks ==
    {ieq \in PpInequalities((-1)..1) :
        Cardinality(ones_of(ieq)) = 1 /\ Cardinality(mones_of(ieq)) = 1}

\* no inequality; one inequality; two inequalities with coefficients -1, 0,
\* 1; three chain links
PpInequalityLists ==
    {<<>>}
    \cup {<<a>> : a \in PpInequalities((-MaxCoord)..MaxCoord)}
    \cup (PpInequalities((-1)..1) \X PpInequalities((-1)..1))
    \cup (PpChainLinks \X PpChainLinks \X PpChainLinks)

\* the moduli are 2..MaxModulus
MaxModulus == 2

\* {i: (m_i, r_i)} on some of the indices 0..PpGens-1
PpMods ==
    UNION {[I -> {mr \in (2..MaxModulus) \X (0..(MaxModulus - 1)) :
                     mr[2] < mr[1]}] :
           I \in SUBSET (0..(PpGens - 1))}

\* one list of one vector, or the inequalities and equations of a
\* polyhedron: two lists
PpVecs ==
    {<<List(<<e>>)>> : e \in PpInequalities((-1)..1)}
    \cup {<<List(<<e, f>>), List(<<>>)>> :
             e \in {c \in PpChainLinks : c[1] = 0},
             f \in {c \in PpChainLinks : c[1] = 0}}

PpInit ==
    /\ \/ \E inequalities \in PpInequalityLists :
            pp_in = [op |-> "prepare_inequalities",
                     inequalities |-> inequalities]
       \/ \E mod \in PpMods, vecs \in PpVecs :
            pp_in = [op |-> "prepare_mod", mod |-> mod, vecs |-> vecs]
    /\ pp_out = Pending
    /\ FdIdle /\ CmIdle /\ GfIdle /\ DmIdle /\ MfIdle /\ ScIdle /\ EgIdle /\ FcIdle

PpReturn(op, ret) ==
    /\ pp_out = Pending
    /\ pp_in.op = op
    /\ pp_out' = Returned(ret)
    /\ UNCHANGED <<pp_in, fd_vars, cm_vars, gf_vars, dm_vars, mf_vars,
                   sc_vars, eg_vars,
                   fc_vars>>

Call_prepare_inequalities ==
    PpReturn("prepare_inequalities", prepare_inequalities(pp_in.inequalities))

Call_prepare_mod ==
    PpReturn("prepare_mod", prepare_mod(pp_in.mod, PpGens, pp_in.vecs))

PpNext ==
    \/ Call_prepare_inequalities
    \/ Call_prepare_mod

SpecPrepare == PpInit /\ [][PpNext]_vars

\* -------------------------------------------------------------- claims
PpCalled(op) == pp_in.op = op /\ pp_out.done

PpPoints == TuplesOver(0..MaxPoint, PpGens)

\* b has nonnegative coordinates and satisfies the inequalities
NonnegativeSolution(inequalities, b) ==
    /\ \A v \in DOMAIN b : b[v] >= 0
    /\ \A k \in DOMAIN inequalities : Dot(inequalities[k], b) >= 0

\* b_v = c_v + sum_u M[u][v] * b'_u
AffineImage(factor, rules, bp) ==
    [v \in DOMAIN factor |->
        factor[v] + SumSeq([u \in DOMAIN rules |-> rules[u][v] * bp[u]])]

\* the matrix of the linear part: row v, column u holds M[u][v]
LinearPart(rules) ==
    [v \in DOMAIN rules |-> [u \in DOMAIN rules |-> rules[u][v]]]

\* the only b' with AffineImage(factor, rules, b') = b (Cramer's rule), for
\* a linear part of determinant 1 or -1
AffinePreimage(factor, rules, b) ==
    LET A == LinearPart(rules)
    IN  [u \in DOMAIN rules |->
            det(A) * det([v \in DOMAIN A |->
                            [w \in DOMAIN A |->
                                IF w = u THEN b[v] - factor[v] ELSE A[v][w]]])]

\* on the points looked at, b' -> b is a bijection from the nonnegative
\* solutions of the returned inequalities onto those of the given ones
IsBijection(given, returned) ==
    /\ det(LinearPart(returned.rules)) \in {1, -1}
    /\ \A bp \in PpPoints :
          NonnegativeSolution(returned.inequalities, bp) =>
             NonnegativeSolution(
                 given, AffineImage(returned.factor, returned.rules, bp))
    /\ \A b \in PpPoints :
          NonnegativeSolution(given, b) =>
             NonnegativeSolution(
                 returned.inequalities,
                 AffinePreimage(returned.factor, returned.rules, b))

\* C17: prepare_inequalities returns inequalities, a factor and rules such
\* that b_v = c_v + sum_u M[u][v] * b'_u maps the nonnegative integer
\* solutions b' of the returned inequalities one-to-one onto the nonnegative
\* integer solutions b of the given inequalities
C17_AffineBijection ==
    PpCalled("prepare_inequalities") =>
        /\ pp_out.ret.raised = "None"
        /\ IsBijection(pp_in.inequalities, pp_out.ret.value)

\* the chain links -b_m + b_o + c >= 0 among the given inequalities
LinksOf(inequalities) ==
    {k \in DOMAIN inequalities :
        /\ \E v \in DOMAIN inequalities[k] : inequalities[k][v] < 0
        /\ Cardinality(ones_of(inequalities[k])) = 1
        /\ Cardinality(mones_of(inequalities[k])) = 1
        /\ absgetwo_of(inequalities[k]) = {}}

\* no chain link has a positive constant and no two of them bound the same
\* difference b_o - b_m
TameLinks(inequalities) ==
    /\ \A k \in LinksOf(inequalities) : inequalities[k][1] <= 0
    /\ \A j, k \in LinksOf(inequalities) :
          (j # k) =>
             \/ ones_of(inequalities[j]) # ones_of(inequalities[k])
             \/ mones_of(inequalities[j]) # mones_of(inequalities[k])

\* when the call returns and the chain links are tame, the change of
\* variables is the bijection
C17_TameLinks ==
    (PpCalled("prepare_inequalities") /\ pp_out.ret.raised = "None"
         /\ TameLinks(pp_in.inequalities)) =>
        IsBijection(pp_in.inequalities, pp_out.ret.value)

\* a chain link with a positive constant: the point b' = 0 is sent to a
\* point with a negative coordinate
C17_NegativeCoordinate ==
    /\ PpCalled("prepare_inequalities")
    /\ pp_in.inequalities = << <<1, -1, 1, 0>> >>
    /\ pp_out.ret.raised = "None"
    /\ pp_out.ret.value.inequalities = <<>>
    /\ AffineImage(pp_out.ret.value.factor, pp_out.ret.value.rules,
                   <<0, 0, 0>>) = <<0, -1, 0>>

\* two chain links that close a cycle: the call raises
C17_Cycle ==
    /\ PpCalled("prepare_inequalities")
    /\ pp_in.inequalities = << <<0, -1, 1, 0>>, <<-1, 1, -1, 0>> >>
    /\ pp_out.ret.raised = "TypeError"


\* the substitution b_i = m_i * b'_i + r_i, b_i = b'_i for i not in mod
Substituted(mod, bp) ==
    [v \in DOMAIN bp |->
        IF (v - 1) \in DOMAIN mod
        THEN mod[v - 1][1] * bp[v] + mod[v - 1][2]
        ELSE bp[v]]

PpIntegerPoints == TuplesOver((-1)..MaxPoint, PpGens)

\* C18: prepare_mod implements b_i = m_i*b'_i + r_i: each returned vector e'
\* has e' . (1, b') = e . (1, b) for all integer b', the factor is the
\* product of the y_i^(r_i) and rules maps y_i to y_i^(m_i); with mod empty
\* the result is (1, {}) and the vecs as they were given
C18_PrepareMod ==
    PpCalled("prepare_mod") =>
        IF DOMAIN pp_in.mod = {}
        THEN pp_out.ret = [factor |-> 1, rules |-> <<>>, vecs |-> pp_in.vecs]
        ELSE /\ DOMAIN pp_out.ret.vecs = DOMAIN pp_in.vecs
             /\ \A k \in DOMAIN pp_in.vecs :
                   /\ DOMAIN pp_out.ret.vecs[k] = DOMAIN pp_in.vecs[k].list
                   /\ \A j \in DOMAIN pp_in.vecs[k].list :
                        \A bp \in PpIntegerPoints :
                           Dot(pp_out.ret.vecs[k][j], bp)
                             = Dot(pp_in.vecs[k].list[j],
                                   Substituted(pp_in.mod, bp))
             /\ pp_out.ret.factor =
                   [v \in 1..PpGens |->
                       IF (v - 1) \in DOMAIN pp_in.mod
                       THEN pp_in.mod[v - 1][2] ELSE 0]
             /\ \A u \in 1..PpGens :
                   (u - 1) \in DOMAIN pp_in.mod =>
                      pp_out.ret.rules[u] =
                         [v \in 1..PpGens |->
                             IF v = u THEN pp_in.mod[u - 1][1] ELSE 0]

\* the first doctest: prepare_mod({0: (2, 1)}, B, [(1, -1, 0, ...)])
C18_Witness ==
    /\ PpCalled("prepare_mod")
    /\ DOMAIN pp_in.mod = {0}
    /\ pp_in.mod[0] = <<2, 1>>
    /\ pp_in.vecs = <<List(<< <<1, -1, 0, 1>> >>)>>
    /\ pp_out.ret.vecs = << << <<0, -2, 0, 1>> >> >>
    /\ pp_out.ret.factor = <<1, 0, 0>>

\* with mod empty the vecs come back as given
C18_EmptyMod ==
    /\ PpCalled("prepare_mod")
    /\ DOMAIN pp_in.mod = {}
    /\ pp_out.ret.vecs = pp_in.vecs


\* ------------------------------------------------------------------
\* FusionDouble.s_ij called repeatedly on one ring
\* ------------------------------------------------------------------
\* @cached_method: the cache is keyed by the arguments of the call; a key
\* that is present is answered from the cache without running the method
cached_method_s_ij(self, cache, key) ==
    IF key \in DOMAIN cache
    THEN [ret |-> cache[key], cache |-> cache]
    ELSE [ret |-> s_ij(self, key[1], key[2], key[3], key[4]),
          cache |-> [k \in DOMAIN cache \cup {key} |->
                        IF k = key
                        THEN s_ij(self, key[1], key[2], key[3], key[4])
                        ELSE cache[k]]]

\* --------------------------------------------------------------- calls
\* the coercion maps _basecoer is set to, besides None
CoercionMaps == {"fvars_field", "cyclotomic_field"}

\* s_ij(i, j, unitary, base_coercion) on the first two and the last basis
\* element
FcArguments(ring) ==
    {k \in BasisKeys(ring) : k <= 1} \X {ring._rank - 1} \X BOOLEAN \X BOOLEAN

FcInit ==
    /\ \E n \in {<<"C", 1>>, <<"C", 2>>} :
          /\ fc_H = Doubles[n]
          /\ \E key \in FcArguments(Doubles[n]) :
                fc_in = [op |-> "s_ij", key |-> key]
    /\ fc_s_ij = <<>>
    /\ fc_out = Pending
    /\ FdIdle /\ CmIdle /\ GfIdle /\ DmIdle /\ MfIdle /\ ScIdle /\ EgIdle
    /\ PpIdle

FcOthers ==
    <<fd_vars, cm_vars, gf_vars, dm_vars, mf_vars, sc_vars, eg_vars, pp_vars>>

Call_s_ij ==
    /\ fc_out = Pending
    /\ fc_in.op = "s_ij"
    /\ fc_out' = Returned(cached_method_s_ij(fc_H, fc_s_ij, fc_in.key).ret)
    /\ fc_s_ij' = cached_method_s_ij(fc_H, fc_s_ij, fc_in.key).cache
    /\ UNCHANGED <<fc_H, fc_in, FcOthers>>

\* self._basecoer = ..., between two calls
Set__basecoer ==
    /\ fc_out = Pending
    /\ fc_in.op = "s_ij"
    /\ \E map \in (CoercionMaps \cup {"None"}) \ {fc_H._basecoer} :
          fc_H' = [fc_H EXCEPT !._basecoer = map]
    /\ UNCHANGED <<fc_s_ij, fc_in, fc_out, FcOthers>>

\* the caller goes on with another call of s_ij
FcCallAgain ==
    /\ fc_out.done
    /\ \E key \in FcArguments(fc_H) : fc_in' = [op |-> "s_ij", key |-> key]
    /\ fc_out' = Pending
    /\ UNCHANGED <<fc_H, fc_s_ij, FcOthers>>

FcNext ==
    \/ Call_s_ij
    \/ Set__basecoer
    \/ FcCallAgain

SpecFusionCalls == FcInit /\ [][FcNext]_vars

\* -------------------------------------------------------------- claims
FcCalled == fc_in.op = "s_ij" /\ fc_out.done

\* the S-matrix entry of the call, before any coercion
FcEntry == s_ij(fc_H, fc_in.key[1], fc_in.key[2], fc_in.key[3], FALSE)

\* C20: s_ij(i, j, unitary, base_coercion=True) returns the S-matrix entry
\* coerced by the coercion map in force at the time of the call, uncoerced
\* when none is set: the cache never answers with a value computed under
\* another coercion
C20_CoercionInForce ==
    (FcCalled /\ fc_in.key[4]) =>
        fc_out.ret = (IF fc_H._basecoer = "None" THEN FcEntry
                      ELSE [coerced_by |-> fc_H._basecoer, value |-> FcEntry])

\* what holds: the call returns what the cache holds for its arguments, the
\* entry as some call with these arguments made it, under the coercion of
\* that time
C20_Memoized ==
    FcCalled =>
        /\ fc_in.key \in DOMAIN fc_s_ij
        /\ fc_out.ret = fc_s_ij[fc_in.key]
        /\ \/ fc_out.ret = FcEntry
           \/ /\ fc_in.key[4]
              /\ \E map \in CoercionMaps :
                    fc_out.ret = [coerced_by |-> map, value |-> FcEntry]

\* a call made while a coercion map is set that returned the uncoerced entry
C20_Stale ==
    /\ FcCalled
    /\ fc_in.key[4]
    /\ fc_H._basecoer = "fvars_field"
    /\ fc_out.ret = FcEntry


====
